---- MODULE Spec2Model ----
(***************************************************************************)
(* agsh: the pipeline runner (pkg/context/pipeline.go) and the in-memory   *)
(* event bus (pkg/events), modelled as state machines.                     *)
(*                                                                         *)
(* Pipeline.Run is sequential.  One action models Run up to the loop, one  *)
(* models one whole iteration of the loop, one models the code after the   *)
(* loop.  Every call Run makes on a collaborator (checkpointer, store,     *)
(* publisher, executor, verifier) is appended to `trace` in program order, *)
(* so that ordering properties can be read off a single sequence.          *)
(*                                                                         *)
(* Run reads p.Steps[i] only in iteration i, so the model draws step i     *)
(* there; len(p.Steps) is fixed when the pipeline is built.                *)
(***************************************************************************)
EXTENDS Integers, Sequences, FiniteSets, TLC

\* ------------------------------------------------------------------ bounds
MaxSteps == 2     \* steps of a pipeline
MaxEvents == 2    \* Publish calls on the bus
ChanCap == 1      \* capacity of a subscriber channel (the code makes it 64)
MaxEntries == 1   \* configured history capacity (the default is 10000)
MaxCalls == 4     \* requests handled in an agent session
MaxPatterns == 2  \* entries of a spec's allowed_commands
MaxRequests == 5  \* requests for the store and the checkpoints served
MaxPosts == 3     \* requests to the inspector's approve and reject endpoints
MaxInvocations == 2  \* calls of registered JSON-RPC handler functions
MaxAssertions == 3   \* assertions of an intent

\* ------------------------------------------------------------- pipeline
VARIABLES
    p,        \* the Pipeline: which collaborators are set, and len(Steps)
    input,    \* the envelope Run was called with
    pc,       \* "idle" (built, Run not called), "loop", "returned"
    idx,      \* the loop variable i of Run
    current,  \* Run's local `current`
    result,   \* Run's local `result` (the PipelineResult that is returned)
    err,      \* the error Run returns ("" is nil)
    store,    \* the context store: "scope/key" -> JSON text
    trace     \* the calls Run has made on its collaborators, in order

pvars == <<p, input, pc, idx, current, result, err, store, trace>>

\* ------------------------------------------------------------ event bus
VARIABLES
    history,      \* MemoryBus.history
    subscribers,  \* MemoryBus.subscribers: <<[ch, filter], ...>>
    chans,        \* the channel Subscribe made for each subscriber: [buf, closed]
    received,     \* what has been received from each channel so far
    pub,          \* the goroutines that call Publish: position and locals
    now           \* the clock: time.Now()

bvars == <<history, subscribers, chans, received, pub, now>>

\* -------------------------------------------------------- agent session
VARIABLES
    loadedSpec,   \* agentState.loadedSpec ("nil" or a ProjectSpec)
    pendingPlan,  \* agentState.pendingPlan ("nil" or an ExecutionPlan)
    planID,       \* agentState.planID
    req,          \* the request handled last: method and params
    resp,         \* the response to it: error code (0 for none) and result
    ncalls        \* requests handled so far

svars == <<loadedSpec, pendingPlan, planID, req, resp, ncalls>>

\* -------------------------------------------------------------- planner
VARIABLES
    projSpec,     \* the validated-or-not ProjectSpec the planner is given
    registry,     \* Registry.commands: the names of the registered commands
    plans         \* what the last two calls of GeneratePlan returned, in order

plvars == <<projSpec, registry, plans>>

\* ---------------------------------------------------------- checkpoints
VARIABLES
    files         \* the checkpoint directory: name -> content of <name>.json

cvars == <<files>>

\* ------------------------------------------------------------ inspector
VARIABLES
    approvalCh,   \* Server.approvalCh: the actions buffered in the channel
    waiting,      \* whether a goroutine is blocked receiving from approvalCh
    got,          \* the actions received from approvalCh so far
    httpResp,     \* the response to the last request to /api/approve or /api/reject
    nposts        \* requests to the two endpoints served so far

ivars == <<approvalCh, waiting, got, httpResp, nposts>>

\* ----------------------------------------------------- JSON-RPC handler
VARIABLES
    handlers,     \* Handler.handlers: method -> the function registered for it
    invoked,      \* the calls of registered functions made so far
    rpcReq,       \* the raw request handled last
    rpcResp       \* the Response returned for it

hvars == <<handlers, invoked, rpcReq, rpcResp>>

\* ------------------------------------------------- verification engine
VARIABLES
    engine,       \* the DefaultEngine: its failFast option
    verifyIn,     \* the arguments of Verify: the envelope and the intent
    verifyRun     \* Verify's position, loop index and result, and the
                  \* assertions a checker has been called for

vvars == <<engine, verifyIn, verifyRun>>

\* ------------------------------------------------ inspector event stream
VARIABLES
    wsClient      \* the client of handleWebSocket: the handler's position,
                  \* client.send, and what has been written to the client

\* ------------------------------------------------- the pipeline method
VARIABLES
    pipeCall      \* a `pipeline` request: its params, whether it has been
                  \* handled, and the response

xvars == <<vvars, wsClient, pipeCall>>

\* The components added to the pipeline, the bus and the session.
avars == <<plvars, cvars, ivars, hvars, xvars>>

vars == <<p, input, pc, idx, current, result, err, store, trace,
          history, subscribers, chans, received, pub, now,
          loadedSpec, pendingPlan, planID, req, resp, ncalls,
          projSpec, registry, plans, files,
          approvalCh, waiting, got, httpResp, nposts,
          handlers, invoked, rpcReq, rpcResp,
          engine, verifyIn, verifyRun, wsClient, pipeCall>>

\* The commands the executor knows (the executors of pipeline_test.go):
\* "fail" always errors, "wrap" returns a new envelope built from its input's
\* payload and writes to the session scope, "pass" hands on its input's
\* payload and provenance.  Any other name is not found.
Commands == {"fail", "wrap", "pass"}

\* on_error values: unset, the two the runner knows, and one it does not.
OnErrors == {"", "stop", "skip", "retry"}

\* The steps the runs of Spec are built from.  step.Intent is only copied (to
\* the step scope and to command.start); these steps leave it unset.
PipelineStep ==
    [Command : Commands, OnError : OnErrors, CheckpointBefore : BOOLEAN,
     Intent : {""}]

ZeroEnvelope == [Payload |-> "nil", Provenance |-> <<>>]

NewEnvelope(payload) == [Payload |-> payload, Provenance |-> <<>>]

AddStep(e, step) == [e EXCEPT !.Provenance = Append(@, step)]

\* The provenance Step Run appends for a command that returned no error.
ProvStep(cmd) == [Command |-> cmd, Status |-> "ok"]

\* Mutant: the checkpoint is named after the step's position counted from 1.
CpNameOneBased(i, cmd) == "step-" \o ToString(i + 1) \o "-" \o cmd

\* fmt.Sprintf("step-%d-%s", i, step.Command)
CpName(i, cmd) == "step-" \o ToString(i) \o "-" \o cmd

\* json.Marshal of a string and of an int, as BoltStore.Set stores them.
JsonString(s) == "\"" \o s \o "\""
JsonInt(n) == ToString(n)

\* BoltStore.Set: upsert of the JSON encoding under (scope, key).
Set(s, scope, key, json) ==
    [k \in (DOMAIN s) \cup {scope \o "/" \o key} |->
        IF k = scope \o "/" \o key THEN json ELSE s[k]]

EmptyStore == [k \in {} |-> ""]

\* One entry of the trace: the kind of call ("save", "set", "event", "exec",
\* "verify"), what it names, the step it was made for, what it carried or
\* returned, and the envelope it was given.
Call(kind, name, i, info, env) ==
    [kind |-> kind, name |-> name, step |-> i, info |-> info, env |-> env]

\* Pipeline.publishEvent: hands the event to the publisher if there is one.
publishEvent(st, type, i, info) ==
    IF p.Events
    THEN [st EXCEPT !.trace = Append(@, Call("event", type, i, info, ZeroEnvelope))]
    ELSE st

\* step.CheckpointBefore && p.Checkpointer != nil
DoCheckpoint(step) == step.CheckpointBefore /\ p.Checkpointer

\* Mutant: a checkpoint that cannot be saved fails the run's result.
CheckpointPhaseFailsRun(st, step, cpOk) ==
    IF DoCheckpoint(step)
    THEN LET cpName == CpName(st.idx, step.Command)
             s1 == [st EXCEPT !.trace =
                        Append(@, Call("save", cpName, st.idx,
                                       IF cpOk THEN "ok" ELSE "error", ZeroEnvelope)),
                              !.result.Success = cpOk /\ @]
         IN publishEvent(s1, IF cpOk THEN "checkpoint.saved" ELSE "checkpoint.error",
                         st.idx, cpName)
    ELSE st

\* Run, lines 89-102: the checkpoint before a risky step.  cpOk is what
\* SaveCheckpoint returns (TRUE: nil).
CheckpointPhase(st, step, cpOk) ==
    IF DoCheckpoint(step)
    THEN LET cpName == CpName(st.idx, step.Command)
             s1 == [st EXCEPT !.trace =
                        Append(@, Call("save", cpName, st.idx,
                                       IF cpOk THEN "ok" ELSE "error", ZeroEnvelope))]
         IN publishEvent(s1, IF cpOk THEN "checkpoint.saved" ELSE "checkpoint.error",
                         st.idx, cpName)
    ELSE st

\* One store write made on behalf of step st.idx.
StoreSet(st, scope, key, json) ==
    [st EXCEPT !.store = Set(@, scope, key, json),
               !.trace = Append(@, Call("set", scope \o "/" \o key, st.idx, json,
                                        ZeroEnvelope))]

\* Run, lines 104-111: the step scope.
StepScopePhase(st, step) ==
    IF p.Context
    THEN LET s1 == StoreSet(st, "step", "command", JsonString(step.Command))
             s2 == StoreSet(s1, "step", "index", JsonInt(st.idx))
         IN IF step.Intent # ""
            THEN StoreSet(s2, "step", "intent", JsonString(step.Intent))
            ELSE s2
    ELSE st

\* CommandExecutor.Execute for the three commands: the run state after the
\* call (the command's store writes made), whether it returned an error, and
\* the envelope it returned.
Execute(st, name, in) ==
    LET s1 == [st EXCEPT !.trace =
                   Append(@, Call("exec", name, st.idx,
                                  IF name \in {"wrap", "x:wrap", "x:write", "pass"} THEN "ok"
                                  ELSE "error",
                                  in))]
    IN CASE name \in {"wrap", "x:wrap", "x:write"} ->
              [st  |-> IF p.Context
                       THEN StoreSet(s1, "session", "written_by", JsonString(name))
                       ELSE s1,
               err |-> FALSE,
               out |-> NewEnvelope("w(" \o in.Payload \o ")")]
         [] name = "pass" ->
              [st |-> s1, err |-> FALSE,
               out |-> [Payload |-> in.Payload, Provenance |-> in.Provenance]]
         [] OTHER ->
              [st |-> s1, err |-> TRUE, out |-> ZeroEnvelope]

\* Mutant: an on_error value the runner does not know is taken as `skip`.
OnErrorOfUnknownSkips(step) ==
    IF step.OnError \in {"", "stop"} THEN "stop" ELSE "skip"

\* onError := step.OnError; if onError == "" { onError = "stop" }
OnErrorOf(step) == IF step.OnError = "" THEN "stop" ELSE step.OnError

\* The StepResult Run builds after Execute (lines 123-131).
NewStepResult(step, i) ==
    [Step |-> step, Output |-> ZeroEnvelope, Error |-> "", Status |-> "",
     VerifyPassed |-> "nil",
     CheckpointSaved |-> IF DoCheckpoint(step) THEN CpName(i, step.Command) ELSE ""]

AppendStep(st, sr) == [st EXCEPT !.result.Steps = Append(@, sr)]

\* Mutant: a run stopped by an executor error publishes no pipeline.end.
ErrorPhaseNoEnd(st, step, sr0) ==
    LET sr == [sr0 EXCEPT !.Status = "error", !.Error = "exec failed"]
        s1 == publishEvent(AppendStep(st, sr), "command.error", st.idx, "")
    IN IF OnErrorOf(step) = "skip"
       THEN [s1 EXCEPT !.idx = @ + 1]
       ELSE [s1 EXCEPT !.result.Success = FALSE, !.pc = "returned",
                       !.err = "pipeline stopped"]

\* Run, lines 133-169: the executor returned an error.
ErrorPhase(st, step, sr0) ==
    LET sr == [sr0 EXCEPT !.Status = "error", !.Error = "exec failed"]
        s1 == publishEvent(AppendStep(st, sr), "command.error", st.idx, "")
    IN IF OnErrorOf(step) = "skip"
       THEN [s1 EXCEPT !.idx = @ + 1]   \* sr.Status = "skipped" is set on the local only
       ELSE LET s2 == [s1 EXCEPT !.result.Success = FALSE]
                s3 == publishEvent(s2, "pipeline.end", st.idx, "false")
            IN [s3 EXCEPT !.pc = "returned", !.err = "pipeline stopped"]

\* Mutant: a failed verification never stops the run.
VerifyFailedPhaseNoStop(st, step, sr0) ==
    [AppendStep(st, [sr0 EXCEPT !.Status = "verify_failed"]) EXCEPT !.idx = @ + 1]

\* Mutant: a step skipped after a failed verification hands its output on.
VerifyFailedPhaseCarries(st, step, sr0) ==
    LET s1 == AppendStep(st, [sr0 EXCEPT !.Status = "verify_failed"])
    IN IF OnErrorOf(step) = "skip"
       THEN [s1 EXCEPT !.idx = @ + 1, !.current = sr0.Output]
       ELSE LET s3 == publishEvent([s1 EXCEPT !.result.Success = FALSE],
                                   "pipeline.end", st.idx, "false")
            IN [s3 EXCEPT !.pc = "returned", !.err = "verification failed"]

\* Run, lines 200-220: the verifier did not pass the step.
VerifyFailedPhase(st, step, sr0) ==
    LET sr == [sr0 EXCEPT !.Status = "verify_failed"]
        s1 == AppendStep(st, sr)
    IN IF OnErrorOf(step) = "skip"
       THEN [s1 EXCEPT !.idx = @ + 1]
       ELSE LET s2 == [s1 EXCEPT !.result.Success = FALSE]
                s3 == publishEvent(s2, "pipeline.end", st.idx, "false")
            IN [s3 EXCEPT !.pc = "returned", !.err = "verification failed"]

\* Run, lines 223-231: the step commits.
CommitPhase(st, sr, output) ==
    LET s1 == publishEvent(AppendStep(st, sr), "command.end", st.idx, "ok")
    IN [s1 EXCEPT !.current = output, !.idx = @ + 1]

\* Run, lines 171-221: the executor returned `output`; passed is what
\* VerifyStep returns when there is a verifier.
SuccessPhase(st, step, sr0, out, passed) ==
    LET output == AddStep(out, ProvStep(step.Command))
        sr1 == [sr0 EXCEPT !.Status = "ok", !.Output = output]
    IN IF p.Verifier
       THEN LET s1 == [st EXCEPT !.trace =
                           Append(@, Call("verify", step.Command, st.idx,
                                          IF passed THEN "true" ELSE "false", output))]
                sr2 == [sr1 EXCEPT !.VerifyPassed = IF passed THEN "true" ELSE "false"]
                s2 == publishEvent(s1, "verify.result", st.idx,
                                   IF passed THEN "true" ELSE "false")
            IN IF ~passed
               THEN VerifyFailedPhase(s2, step, sr2)
               ELSE CommitPhase(s2, sr2, output)
       ELSE CommitPhase(st, sr1, output)

\* Mutant: the step scope is written at the end of the iteration.
IterateScopeLast(st, step, cpOk, passed) ==
    LET s1 == CheckpointPhase(st, step, cpOk)
        s3 == publishEvent(s1, "command.start", st.idx, step.Command)
        ex == Execute(s3, step.Command, s3.current)
        sr == NewStepResult(step, st.idx)
        s4 == IF ex.err
              THEN ErrorPhase(ex.st, step, sr)
              ELSE SuccessPhase(ex.st, step, sr, ex.out, passed)
        s5 == StepScopePhase([s4 EXCEPT !.idx = st.idx], step)
    IN [s5 EXCEPT !.idx = s4.idx]

\* One iteration of the loop of Run (lines 89-232) for `step`, from run state
\* st, when SaveCheckpoint returns cpOk and VerifyStep returns passed.
Iterate(st, step, cpOk, passed) ==
    LET s1 == CheckpointPhase(st, step, cpOk)
        s2 == StepScopePhase(s1, step)
        s3 == publishEvent(s2, "command.start", st.idx, step.Command)
        ex == Execute(s3, step.Command, s3.current)
        sr == NewStepResult(step, st.idx)
    IN IF ex.err
       THEN ErrorPhase(ex.st, step, sr)
       ELSE SuccessPhase(ex.st, step, sr, ex.out, passed)

\* Run's local state as one record.
St ==
    [pc |-> pc, idx |-> idx, current |-> current, result |-> result,
     err |-> err, store |-> store, trace |-> trace]

Becomes(nx) ==
    /\ pc' = nx.pc
    /\ idx' = nx.idx
    /\ current' = nx.current
    /\ result' = nx.result
    /\ err' = nx.err
    /\ store' = nx.store
    /\ trace' = nx.trace

ZeroResult == [Steps |-> <<>>, Success |-> FALSE, Output |-> ZeroEnvelope]

\* Run's locals, the store and the trace before Run is called.
ZeroSt ==
    [pc |-> "idle", idx |-> 0, current |-> ZeroEnvelope, result |-> ZeroResult,
     err |-> "", store |-> EmptyStore, trace |-> <<>>]

\* Run, lines 73-87, for the input `in`.
Started(st, in) ==
    IF ~p.Executor
    THEN [st EXCEPT !.pc = "returned", !.err = "no executor", !.result = ZeroResult]
    ELSE publishEvent([st EXCEPT !.pc = "loop", !.idx = 0, !.current = in,
                                 !.result = [Steps |-> <<>>, Success |-> TRUE,
                                             Output |-> ZeroEnvelope]],
                      "pipeline.start", 0, ToString(p.NSteps))

\* Mutant: Run returns without setting the result's output.
FinishedWithoutOutput(st) ==
    LET s2 == publishEvent(st, "pipeline.end", p.NSteps - 1, "true")
    IN [s2 EXCEPT !.pc = "returned", !.err = ""]

\* Run, lines 234-241: after the loop.
Finished(st) ==
    LET s1 == [st EXCEPT !.result.Output = st.current]
        s2 == publishEvent(s1, "pipeline.end", p.NSteps - 1, "true")
    IN [s2 EXCEPT !.pc = "returned", !.err = ""]

\* The envelope Run is called with: one that has been through a command
\* before, so that its provenance is not empty.
Inputs == { [Payload |-> "hello", Provenance |-> <<ProvStep("earlier")>>] }

PipelineInit ==
    /\ p \in [Executor : BOOLEAN, Events : BOOLEAN, Verifier : BOOLEAN,
              Checkpointer : BOOLEAN, Context : BOOLEAN, NSteps : 0..MaxSteps]
    /\ input \in Inputs
    /\ pc = ZeroSt.pc
    /\ idx = ZeroSt.idx
    /\ current = ZeroSt.current
    /\ result = ZeroSt.result
    /\ err = ZeroSt.err
    /\ store = ZeroSt.store
    /\ trace = ZeroSt.trace

RunStart ==
    /\ pc = "idle"
    /\ Becomes(Started(St, input))
    /\ UNCHANGED <<p, input, bvars, svars, avars>>

RunIteration ==
    /\ pc = "loop"
    /\ idx < p.NSteps
    /\ \E step \in PipelineStep, cpOk \in BOOLEAN, passed \in BOOLEAN :
          Becomes(Iterate(St, step, cpOk, passed))
    /\ UNCHANGED <<p, input, bvars, svars, avars>>

RunFinish ==
    /\ pc = "loop"
    /\ idx >= p.NSteps
    /\ Becomes(Finished(St))
    /\ UNCHANGED <<p, input, bvars, svars, avars>>

\* Steps with and without an intent, for runs on a store.
IntentSteps ==
    [Command : {"wrap", "fail"}, OnError : {"", "skip"},
     CheckpointBefore : {FALSE}, Intent : {"", "list files"}]

\* One iteration of the loop for a step that may have an intent.
RunIntentIteration ==
    /\ pc = "loop"
    /\ idx < p.NSteps
    /\ \E step \in IntentSteps, passed \in BOOLEAN :
          Becomes(Iterate(St, step, TRUE, passed))
    /\ UNCHANGED <<p, input, bvars, svars, avars>>

ScopeNext == RunStart \/ RunIntentIteration \/ RunFinish

PipelineNext == RunStart \/ RunIteration \/ RunFinish

\* ------------------------------------------------------------ event bus
\* MemoryBus guards history and subscribers with one mutex; Subscribe,
\* Unsubscribe and the first half of Publish each hold it from start to end,
\* so each is one step.  The sends of Publish are made after the mutex is
\* released, one step per subscriber of the copy.

\* The goroutines that call Publish.
Publishers == {"g1", "g2"}

\* The goroutines that subscribe: each calls Subscribe once, reads from the
\* channel it got and may call Unsubscribe with it.  A channel is named after
\* its subscriber.
Subscribers == {"s1", "s2"}

NoChans == [s \in {} |-> <<>>]

EventTypes == {"command.start", "command.end"}

\* The EventType constants the events package declares.
DeclaredEventTypes ==
    {"command.start", "command.end", "command.error", "pipeline.start",
     "pipeline.end", "pipeline.step", "verify.start", "verify.result",
     "checkpoint.save", "checkpoint.restore", "context.change",
     "plan.generated", "plan.approval_requested", "plan.approved",
     "plan.rejected", "spec.loaded", "agent.message"}

\* Subscribe() and Subscribe(EventCommandEnd)
Filters == {{}, {"command.end"}}

ZeroTime == 0

\* if event.Timestamp.IsZero() { event.Timestamp = time.Now() }
Stamped(event, t) ==
    IF event.Timestamp = ZeroTime THEN [event EXCEPT !.Timestamp = t] ELSE event

\* len(sub.filter) > 0 && !sub.filter[event.Type] is the case Publish skips.
Matches(sub, event) == sub.filter = {} \/ event.Type \in sub.filter

IsFull(c) == Len(c.buf) >= ChanCap

RecordedNewestFirst(h, event) == <<event>> \o h

\* b.history = append(b.history, event)
Recorded(h, event) == Append(h, event)

\* History: the events e of h with !e.Timestamp.Before(since), in h's order.
History(h, since) ==
    LET NotBefore(e) == e.Timestamp >= since
    IN SelectSeq(h, NotBefore)

\* A goroutine that is not in Publish.  In Publish it is at "lock" (about to
\* take the mutex) or at "send" (in the loop, at subs[k]), with the event and
\* its copy of the subscribers; fullAtPub notes which of them had a full
\* channel when the event went into history.  "panicked" is a goroutine that
\* died in Publish.
IdlePub ==
    [pc |-> "idle", ev |-> [Type |-> "", Timestamp |-> ZeroTime, Data |-> 0],
     subs |-> <<>>, k |-> 1, fullAtPub |-> {}]

\* Publish returns when the loop has gone through the copy.
Returned(P) == IF P.k > Len(P.subs) THEN IdlePub ELSE P

BusInit ==
    /\ history = <<>>
    /\ subscribers = <<>>
    /\ chans = NoChans
    /\ received = NoChans
    /\ pub = [q \in Publishers |-> IdlePub]
    /\ now = 1

\* Publish, lines 166-169: the call, with the event the caller built.
PublishCall(q) ==
    /\ pub[q].pc = "idle"
    /\ now <= MaxEvents
    /\ \E type \in EventTypes, ts \in {ZeroTime, now} :
          pub' = [pub EXCEPT ![q] =
                     [IdlePub EXCEPT
                        !.pc = "lock",
                        !.ev = Stamped([Type |-> type, Timestamp |-> ts,
                                        Data |-> now], now)]]
    /\ now' = now + 1
    /\ UNCHANGED <<history, subscribers, chans, received, pvars, svars, avars>>

\* Publish, lines 171-175: under the mutex, append to history and copy the
\* subscribers.
PublishLocked(q) ==
    /\ pub[q].pc = "lock"
    /\ history' = Recorded(history, pub[q].ev)
    /\ pub' = [pub EXCEPT ![q] =
                  Returned([@ EXCEPT
                     !.pc = "send",
                     !.subs = subscribers,
                     !.fullAtPub = {k \in DOMAIN subscribers :
                                       IsFull(chans[subscribers[k].ch])}])]
    /\ UNCHANGED <<subscribers, chans, received, now, pvars, svars, avars>>

\* Publish, lines 177-186: one turn of the loop over the copy.  A send on a
\* closed channel panics, also inside a select with a default case.
PublishSend(q) ==
    /\ pub[q].pc = "send"
    /\ LET P == pub[q]
           sub == P.subs[P.k]
           c == chans[sub.ch]
       IN IF ~Matches(sub, P.ev)
          THEN /\ pub' = [pub EXCEPT ![q] =
                             Returned([P EXCEPT !.k = @ + 1])]
               /\ UNCHANGED chans
          ELSE IF c.closed
          THEN /\ pub' = [pub EXCEPT ![q].pc = "panicked"]
               /\ UNCHANGED chans
          ELSE IF ~IsFull(c)
          THEN /\ chans' = [chans EXCEPT ![sub.ch].buf = Append(@, P.ev)]
               /\ pub' = [pub EXCEPT ![q] =
                             Returned([P EXCEPT !.k = @ + 1])]
          ELSE /\ pub' = [pub EXCEPT ![q] =
                             Returned([P EXCEPT !.k = @ + 1])]
               /\ UNCHANGED chans
    /\ UNCHANGED <<history, subscribers, received, now, pvars, svars, avars>>

\* Subscribe, lines 189-204.
Subscribe(s) ==
    /\ s \notin DOMAIN chans
    /\ \E filter \in Filters :
          subscribers' = Append(subscribers, [ch |-> s, filter |-> filter])
    /\ chans' = chans @@ (s :> [buf |-> <<>>, closed |-> FALSE])
    /\ received' = received @@ (s :> <<>>)
    /\ UNCHANGED <<history, pub, now, pvars, svars, avars>>

\* The subscribers without the first entry for channel ch.
Without(subs, ch) ==
    LET i == CHOOSE i \in DOMAIN subs :
                 subs[i].ch = ch /\ \A j \in 1..(i - 1) : subs[j].ch # ch
    IN SubSeq(subs, 1, i - 1) \o SubSeq(subs, i + 1, Len(subs))

\* Unsubscribe, lines 206-217, for a channel that is subscribed (for any
\* other it changes nothing).
Unsubscribe(ch) ==
    /\ \E i \in DOMAIN subscribers : subscribers[i].ch = ch
    /\ subscribers' = Without(subscribers, ch)
    /\ chans' = [chans EXCEPT ![ch].closed = TRUE]
    /\ UNCHANGED <<history, received, pub, now, pvars, svars, avars>>

\* A subscriber takes the next event from its channel.
Receive(ch) ==
    /\ chans[ch].buf # <<>>
    /\ received' = [received EXCEPT ![ch] = Append(@, Head(chans[ch].buf))]
    /\ chans' = [chans EXCEPT ![ch].buf = Tail(@)]
    /\ UNCHANGED <<history, subscribers, pub, now, pvars, svars, avars>>

BusNext ==
    \/ \E q \in Publishers : PublishCall(q)
    \/ \E q \in Publishers : PublishLocked(q)
    \/ \E q \in Publishers : PublishSend(q)
    \/ \E s \in Subscribers : Subscribe(s)
    \/ \E ch \in DOMAIN chans : Unsubscribe(ch)
    \/ \E ch \in DOMAIN chans : Receive(ch)

\* -------------------------------------------------------- agent session
\* JSON-RPC error codes (0 stands for a response without error).
CodeInvalidParams == -32602
CodeInternalError == -32603
CodeCommandFailed == -32001
CodeSpecInvalid == -32003
CodeNoPendingPlan == -32004

\* A Go pointer: nil, or the address of a value.
Nil == <<>>
Ptr(x) == <<x>>
Deref(ptr) == ptr[1]

\* The spec files on disk.  "missing.yaml" does not exist.
Paths == {"a.yaml", "b.yaml", "nogoal.yaml", "missing.yaml"}

ZeroProjectSpec ==
    [APIVersion |-> "", Kind |-> "", Name |-> "", Goal |-> "",
     AllowedCommands |-> <<>>, Output |-> [Path |-> ""]]

\* LoadSpec: os.ReadFile, then ParseSpec.
LoadSpec(path) ==
    CASE path = "a.yaml" ->
           [err |-> "", spec |-> [APIVersion |-> "agsh/v1", Kind |-> "ProjectSpec",
                                  Name |-> "a", Goal |-> "wrap it",
                                  AllowedCommands |-> <<"x:write">>,
                                  Output |-> [Path |-> ""]]]
      [] path = "b.yaml" ->
           [err |-> "", spec |-> [APIVersion |-> "agsh/v1", Kind |-> "ProjectSpec",
                                  Name |-> "b", Goal |-> "fail at it",
                                  AllowedCommands |-> <<"x:fail">>,
                                  Output |-> [Path |-> ""]]]
      [] path = "nogoal.yaml" ->
           [err |-> "", spec |-> [APIVersion |-> "agsh/v1", Kind |-> "ProjectSpec",
                                  Name |-> "c", Goal |-> "  ",
                                  AllowedCommands |-> <<"x:wrap">>,
                                  Output |-> [Path |-> ""]]]
      [] OTHER -> [err |-> "read spec", spec |-> ZeroProjectSpec]

\* strings.TrimSpace, on the strings of the model.
TrimSpace(str) == IF str \in {" ", "  "} THEN "" ELSE str

\* --------------------------------------------------------------- planner
\* Go strings are byte sequences; the planner and the registry look inside
\* command names and patterns, so these are spelled out.
Chars(s) ==
    CASE s = "" -> <<>>
      [] s = "*" -> <<"*">>
      [] s = ":" -> <<":">>
      [] s = "list" -> <<"l", "i", "s", "t">>
      [] s = "fs:*" -> <<"f", "s", ":", "*">>
      [] s = "fs:list" -> <<"f", "s", ":", "l", "i", "s", "t">>
      [] s = "fs:read" -> <<"f", "s", ":", "r", "e", "a", "d">>
      [] s = "fs:write" -> <<"f", "s", ":", "w", "r", "i", "t", "e">>
      [] s = "db:PUT" -> <<"d", "b", ":", "P", "U", "T">>
      [] s = "x:wrap" -> <<"x", ":", "w", "r", "a", "p">>
      [] s = "x:write" -> <<"x", ":", "w", "r", "i", "t", "e">>
      [] s = "x:fail" -> <<"x", ":", "f", "a", "i", "l">>
      [] s = "hello" -> <<"h", "e", "l", "l", "o">>
      [] s = "missing" -> <<"m", "i", "s", "s", "i", "n", "g">>
      [] s = "write" -> <<"w", "r", "i", "t", "e">>
      [] s = "create" -> <<"c", "r", "e", "a", "t", "e">>
      [] s = "delete" -> <<"d", "e", "l", "e", "t", "e">>
      [] s = "update" -> <<"u", "p", "d", "a", "t", "e">>
      [] s = "post" -> <<"p", "o", "s", "t">>
      [] s = "put" -> <<"p", "u", "t">>
      [] s = "patch" -> <<"p", "a", "t", "c", "h">>

\* strings.HasPrefix, HasSuffix, TrimSuffix, Contains and ToLower.
HasPrefix(s, prefix) ==
    Len(s) >= Len(prefix) /\ SubSeq(s, 1, Len(prefix)) = prefix

HasSuffix(s, suffix) ==
    Len(s) >= Len(suffix) /\ SubSeq(s, Len(s) - Len(suffix) + 1, Len(s)) = suffix

TrimSuffix(s, suffix) ==
    IF HasSuffix(s, suffix) THEN SubSeq(s, 1, Len(s) - Len(suffix)) ELSE s

Contains(s, substr) ==
    \E i \in 0..(Len(s) - Len(substr)) : SubSeq(s, i + 1, i + Len(substr)) = substr

ToLower(s) ==
    LET Lower(c) == CASE c = "P" -> "p" [] c = "U" -> "u" [] c = "T" -> "t"
                      [] OTHER -> c
    IN [i \in DOMAIN s |-> Lower(s[i])]

\* validateCommandPattern: "" when the pattern is accepted.
validateCommandPattern(pattern) ==
    IF pattern = "" THEN "empty command pattern"
    ELSE IF pattern = "*" THEN ""
    ELSE IF ~Contains(Chars(pattern), Chars(":")) THEN "invalid pattern"
    ELSE IF HasPrefix(Chars(pattern), Chars(":")) THEN "empty namespace"
    ELSE ""

\* ValidateSpec: the fields that failed, in the order they are checked.
ValidateSpec(spec) ==
    LET Bad(n) == validateCommandPattern(spec.AllowedCommands[n]) # ""
        RECURSIVE BadPatterns(_)
        BadPatterns(n) ==
            IF n > Len(spec.AllowedCommands) THEN <<>>
            ELSE (IF Bad(n)
                  THEN <<"allowed_commands[" \o ToString(n - 1) \o "]">>
                  ELSE <<>>) \o BadPatterns(n + 1)
    IN (IF spec.APIVersion # "agsh/v1" THEN <<"apiVersion">> ELSE <<>>)
       \o (IF spec.Kind # "ProjectSpec" THEN <<"kind">> ELSE <<>>)
       \o (IF spec.Name = "" THEN <<"meta.name">> ELSE <<>>)
       \o (IF TrimSpace(spec.Goal) = "" THEN <<"goal">> ELSE <<>>)
       \o BadPatterns(1)

\* ValidationResult.Valid
Valid(vr) == Len(vr) = 0

\* matchGlob: only a trailing * is a wildcard.
matchGlob(pattern, name) ==
    IF pattern = "*" THEN TRUE
    ELSE IF HasSuffix(Chars(pattern), Chars("*"))
         THEN HasPrefix(Chars(name), TrimSuffix(Chars(pattern), Chars("*")))
         ELSE pattern = name

\* The orders in which `range` may go over a registry's map of commands: Go
\* leaves the order open, and it may differ from one loop to the next.
Orders(r) ==
    {o \in [1..Cardinality(r) -> r] :
        \A i, j \in DOMAIN o : o[i] = o[j] => i = j}

\* Registry.MatchGlob behind registryLister.MatchGlob: the names of the
\* matching commands, in the order this loop over the map meets them.
MatchGlob(order, pattern) ==
    LET Matching(name) == matchGlob(pattern, name)
    IN SelectSeq(order, Matching)

\* The lister of a call: nil, or the registry with the orders its map is
\* gone over, one for each pattern.
NilLister == Nil
RegistryLister(r, orders) == Ptr([registry |-> r, orders |-> orders])

\* resolveAllowedCommands: `seen` is the set of the names in the result `res`.
RECURSIVE AppendUnseen(_, _)
AppendUnseen(res, names) ==
    IF names = <<>> THEN res
    ELSE AppendUnseen(IF \E i \in DOMAIN res : res[i] = Head(names)
                      THEN res
                      ELSE Append(res, Head(names)),
                      Tail(names))

RECURSIVE resolveFrom(_, _, _, _)
resolveFrom(patterns, lister, n, res) ==
    IF n > Len(patterns) THEN res
    ELSE resolveFrom(patterns, lister, n + 1,
             IF Contains(Chars(patterns[n]), Chars("*"))
             THEN AppendUnseen(res, MatchGlob(Deref(lister).orders[n], patterns[n]))
             ELSE AppendUnseen(res, <<patterns[n]>>))

resolveAllowedCommands(patterns, lister) ==
    IF lister = Nil THEN patterns ELSE resolveFrom(patterns, lister, 1, <<>>)

writeVerbs == <<"write", "create", "delete", "update", "post", "put", "patch">>

isWriteCommand(name) ==
    LET lower == ToLower(Chars(name))
    IN \E v \in DOMAIN writeVerbs : Contains(lower, Chars(writeVerbs[v]))

\* classifyCommands
Reads(commands) ==
    LET IsRead(cmd) == ~isWriteCommand(cmd) IN SelectSeq(commands, IsRead)

Writes(commands) == SelectSeq(commands, isWriteCommand)

\* Mutant: the write steps do not ask for a checkpoint.
buildStepsNoCheckpoint(spec, reads, writes) ==
    [n \in DOMAIN reads |->
        [Command |-> reads[n], Args |-> <<>>,
         Intent |-> "Gather data using " \o reads[n],
         Risk |-> "read-only", CheckpointBefore |-> FALSE, OnError |-> "stop"]]
    \o [n \in DOMAIN writes |->
        [Command |-> writes[n], Args |-> <<>>,
         Intent |-> "Write output using " \o writes[n],
         Risk |-> "write", CheckpointBefore |-> FALSE, OnError |-> "stop"]]

\* Mutant: the write steps are put first.
buildStepsWritesFirst(spec, reads, writes) ==
    [n \in DOMAIN writes |->
        [Command |-> writes[n], Args |-> <<>>,
         Intent |-> "Write output using " \o writes[n],
         Risk |-> "write", CheckpointBefore |-> TRUE, OnError |-> "stop"]]
    \o [n \in DOMAIN reads |->
        [Command |-> reads[n], Args |-> <<>>,
         Intent |-> "Gather data using " \o reads[n],
         Risk |-> "read-only", CheckpointBefore |-> FALSE, OnError |-> "stop"]]

\* buildSteps: the read steps, then the write steps.
buildSteps(spec, reads, writes) ==
    [n \in DOMAIN reads |->
        [Command |-> reads[n], Args |-> <<>>,
         Intent |-> "Gather data using " \o reads[n],
         Risk |-> "read-only", CheckpointBefore |-> FALSE, OnError |-> "stop"]]
    \o [n \in DOMAIN writes |->
        IF writes[n] = "fs:write" /\ spec.Output.Path # ""
        THEN [Command |-> writes[n], Args |-> <<spec.Output.Path>>,
              Intent |-> "Write final output to " \o spec.Output.Path,
              Risk |-> "write", CheckpointBefore |-> TRUE, OnError |-> "stop"]
        ELSE [Command |-> writes[n], Args |-> <<>>,
              Intent |-> "Write output using " \o writes[n],
              Risk |-> "write", CheckpointBefore |-> TRUE, OnError |-> "stop"]]

ZeroPlan ==
    [Spec |-> "", Steps |-> <<>>, EstimatedRisk |-> "", AllowedCommands |-> <<>>,
     Output |-> [Path |-> ""]]

\* GeneratePlan
GeneratePlan(spec, lister) ==
    IF ~Valid(ValidateSpec(spec))
    THEN [err |-> "invalid spec", plan |-> ZeroPlan]
    ELSE LET available == resolveAllowedCommands(spec.AllowedCommands, lister)
             reads == Reads(available)
             writes == Writes(available)
         IN [err |-> "",
             plan |-> [Spec |-> spec.Name,
                       Steps |-> buildSteps(spec, reads, writes),
                       EstimatedRisk |-> ToString(Len(reads)) \o " read-only, "
                                         \o ToString(Len(writes)) \o " write operations",
                       AllowedCommands |-> available,
                       Output |-> spec.Output]]

\* The registry of the agent session, and the lister made of it for each
\* call of the planner.  "x:wrap" and "x:write" are commands with the
\* behaviour of the executor's "wrap", "x:fail" one that always errors.
AgentRegistry == {"x:wrap", "x:write", "x:fail"}
AgentLister == RegistryLister(AgentRegistry, <<>>)

\* Request params that do not unmarshal into the params struct.
Malformed == "\"not an object\""

\* ParseParams: absent or null params give the zero value.
\* The params of a request: the JSON text (as far as it matters) and, for
\* an object, the struct it unmarshals into.
Params(json, val) == [json |-> json, p |-> val]

\* The zero value of the params structs (ProjectLoadParams,
\* ProjectApproveParams and ProjectRejectParams in one record).
ZeroParams == [Path |-> "", Feedback |-> "", PlanID |-> ""]

NoParams == Params("null", ZeroParams)

\* ParseParams: absent or null params give the zero value.
ParseParams(params, zero) ==
    IF params.json = Malformed THEN [code |-> CodeInvalidParams, p |-> zero]
    ELSE IF params.json = "null" THEN [code |-> 0, p |-> zero]
    ELSE [code |-> 0, p |-> params.p]

\* bus.Publish(events.NewEvent(type, data)) at time t, nobody subscribed.
Emit(h, type, data, t) ==
    Recorded(h, Stamped([Type |-> type, Timestamp |-> t, Data |-> data], t))

\* Pipeline.Run as one call: the loop over the steps, every checkpoint saved.
RECURSIVE RunLoop(_, _)
RunLoop(st, steps) ==
    IF st.pc = "loop" /\ st.idx < Len(steps)
    THEN RunLoop(Iterate(st, steps[st.idx + 1], TRUE, TRUE), steps)
    ELSE st

\* The one element of a set of one.
The(S) == CHOOSE x \in S : TRUE

Run(st, steps, in) ==
    The({IF r.pc = "loop" THEN Finished(r) ELSE r :
            r \in {RunLoop(Started(st, in), steps)}})

\* executeAgentPlan: runs the plan's steps as a pipeline on the session's
\* store, its events going to the bus.  (The specs of the model have no
\* success criteria.)
executeAgentPlan(h, st, plan, t) ==
    LET IsEv(c) == c.kind = "event"
        Published(evs) ==
            [n \in DOMAIN evs |->
                [Type |-> evs[n].name, Timestamp |-> t, Data |-> evs[n].info]]
        pipelineSteps ==
            [n \in DOMAIN plan.Steps |->
                [Command |-> plan.Steps[n].Command,
                 Intent |-> plan.Steps[n].Intent,
                 OnError |-> plan.Steps[n].OnError,
                 CheckpointBefore |-> plan.Steps[n].CheckpointBefore]]
    IN The({[history |-> h \o Published(SelectSeq(r.trace, IsEv)),
             store |-> r.store,
             err |-> r.err] :
               r \in {Run([ZeroSt EXCEPT !.store = st], pipelineSteps,
                           NewEnvelope("nil"))}})

\* What a handler works on and leaves behind, with its response.
Session ==
    [loadedSpec |-> loadedSpec, pendingPlan |-> pendingPlan, planID |-> planID,
     history |-> history, store |-> store, code |-> 0, result |-> ""]

Failed(c, code) == [c EXCEPT !.code = code]

\* Mutant: project.load that leaves the pending plan where it is.
projectLoadKeepsPlan(c, params, t) ==
    LET pp == ParseParams(params, ZeroParams)
        l == LoadSpec(pp.p.Path)
    IN IF pp.code # 0 THEN Failed(c, pp.code)
       ELSE IF l.err # "" THEN Failed(c, CodeInternalError)
       ELSE IF ~Valid(ValidateSpec(l.spec)) THEN Failed(c, CodeSpecInvalid)
       ELSE [c EXCEPT !.loadedSpec = Ptr(l.spec),
                      !.history = Emit(@, "spec.loaded", l.spec.Name, t),
                      !.result = l.spec.Name]

\* project.load
projectLoad(c, params, t) ==
    LET pp == ParseParams(params, ZeroParams)
        l == LoadSpec(pp.p.Path)
    IN IF pp.code # 0 THEN Failed(c, pp.code)
       ELSE IF l.err # "" THEN Failed(c, CodeInternalError)
       ELSE IF ~Valid(ValidateSpec(l.spec)) THEN Failed(c, CodeSpecInvalid)
       ELSE [c EXCEPT !.loadedSpec = Ptr(l.spec),
                      !.pendingPlan = Nil,
                      !.planID = "",
                      !.history = Emit(@, "spec.loaded", l.spec.Name, t),
                      !.result = l.spec.Name]

PlanIDAt(t) == "plan-" \o ToString(t)

\* Mutant: project.plan that plans whether or not a spec is loaded.
projectPlanUnguarded(c, t) ==
    LET spec == IF c.loadedSpec = Nil THEN LoadSpec("a.yaml").spec
                ELSE Deref(c.loadedSpec)
        id == PlanIDAt(t)
    IN [c EXCEPT !.pendingPlan = Ptr(GeneratePlan(spec, AgentLister).plan),
                 !.planID = id,
                 !.history = Emit(Emit(@, "plan.generated", id, t),
                                  "plan.approval_requested", id, t),
                 !.result = id]

\* project.plan
projectPlan(c, t) ==
    IF c.loadedSpec = Nil THEN Failed(c, CodeNoPendingPlan)
    ELSE LET g == GeneratePlan(Deref(c.loadedSpec), AgentLister)
             id == PlanIDAt(t)
         IN IF g.err # "" THEN Failed(c, CodeInternalError)
            ELSE [c EXCEPT !.pendingPlan = Ptr(g.plan),
                           !.planID = id,
                           !.history = Emit(Emit(@, "plan.generated", id, t),
                                            "plan.approval_requested", id, t),
                           !.result = id]

\* Mutant: project.approve that keeps the plan pending when its run fails.
projectApproveKeepsFailedPlan(c, t) ==
    IF c.pendingPlan = Nil THEN Failed(c, CodeNoPendingPlan)
    ELSE LET x == executeAgentPlan(Emit(c.history, "plan.approved", c.planID, t),
                                   c.store, Deref(c.pendingPlan), t)
             ran == [c EXCEPT !.history = x.history, !.store = x.store]
         IN IF x.err # "" THEN Failed(ran, CodeCommandFailed)
            ELSE [ran EXCEPT !.pendingPlan = Nil, !.result = "success"]

\* project.approve
projectApprove(c, t) ==
    IF c.pendingPlan = Nil THEN Failed(c, CodeNoPendingPlan)
    ELSE LET x == executeAgentPlan(Emit(c.history, "plan.approved", c.planID, t),
                                   c.store, Deref(c.pendingPlan), t)
             done == [c EXCEPT !.pendingPlan = Nil,
                               !.history = x.history,
                               !.store = x.store]
         IN IF x.err # "" THEN Failed(done, CodeCommandFailed)
            ELSE [done EXCEPT !.result = "success"]

\* Mutant: project.reject that forgets the plan_id before it looks at the slot.
projectRejectForgets(c, params, t) ==
    LET pp == ParseParams(params, ZeroParams)
        c0 == [c EXCEPT !.planID = ""]
    IN IF pp.code # 0 THEN Failed(c, pp.code)
       ELSE IF c.pendingPlan = Nil THEN Failed(c0, CodeNoPendingPlan)
       ELSE [c EXCEPT !.history = Emit(@, "plan.rejected", c.planID, t),
                      !.pendingPlan = Nil,
                      !.planID = "",
                      !.result = "rejected"]

\* project.reject
projectReject(c, params, t) ==
    LET pp == ParseParams(params, ZeroParams)
    IN IF pp.code # 0 THEN Failed(c, pp.code)
       ELSE IF c.pendingPlan = Nil THEN Failed(c, CodeNoPendingPlan)
       ELSE [c EXCEPT !.history = Emit(@, "plan.rejected", c.planID, t),
                      !.pendingPlan = Nil,
                      !.planID = "",
                      !.result = "rejected"]

\* Mutant: project.run that announces the spec before it validates it.
projectRunAnnouncesFirst(c, params, t) ==
    LET pp == ParseParams(params, ZeroParams)
        l == LoadSpec(pp.p.Path)
        g == GeneratePlan(l.spec, AgentLister)
        h1 == Emit(c.history, "spec.loaded", l.spec.Name, t)
        h2 == Emit(Emit(h1, "plan.generated", g.plan.Spec, t),
                   "plan.approved", "auto", t)
        x == executeAgentPlan(h2, c.store, g.plan, t)
        done == [c EXCEPT !.history = x.history, !.store = x.store]
    IN IF pp.code # 0 THEN Failed(c, pp.code)
       ELSE IF l.err # "" THEN Failed(c, CodeInternalError)
       ELSE IF ~Valid(ValidateSpec(l.spec))
            THEN Failed([c EXCEPT !.history = h1], CodeSpecInvalid)
       ELSE IF g.err # "" THEN Failed([c EXCEPT !.history = h1], CodeInternalError)
       ELSE IF x.err # "" THEN Failed(done, CodeCommandFailed)
       ELSE [done EXCEPT !.result = "success"]

\* project.run
projectRun(c, params, t) ==
    LET pp == ParseParams(params, ZeroParams)
        l == LoadSpec(pp.p.Path)
        g == GeneratePlan(l.spec, AgentLister)
        h1 == Emit(c.history, "spec.loaded", l.spec.Name, t)
        h2 == Emit(Emit(h1, "plan.generated", g.plan.Spec, t),
                   "plan.approved", "auto", t)
        x == executeAgentPlan(h2, c.store, g.plan, t)
        done == [c EXCEPT !.history = x.history, !.store = x.store]
    IN IF pp.code # 0 THEN Failed(c, pp.code)
       ELSE IF l.err # "" THEN Failed(c, CodeInternalError)
       ELSE IF ~Valid(ValidateSpec(l.spec)) THEN Failed(c, CodeSpecInvalid)
       ELSE IF g.err # "" THEN Failed([c EXCEPT !.history = h1], CodeInternalError)
       ELSE IF x.err # "" THEN Failed(done, CodeCommandFailed)
       ELSE [done EXCEPT !.result = "success"]

ZeroResponse == [code |-> 0, result |-> ""]

NoRequest == [method |-> "", params |-> NoParams]

SessionInit ==
    /\ loadedSpec = Nil
    /\ pendingPlan = Nil
    /\ planID = ""
    /\ req = NoRequest
    /\ resp = ZeroResponse
    /\ ncalls = 0

\* The agent loop handles one request, at time t (the clock's milliseconds):
\* `out` is what the method's handler leaves behind.
Handled(method, params, out, t) ==
    /\ ncalls < MaxCalls
    /\ loadedSpec' = out.loadedSpec
    /\ pendingPlan' = out.pendingPlan
    /\ planID' = out.planID
    /\ history' = out.history
    /\ store' = out.store
    /\ req' = [method |-> method, params |-> params]
    /\ resp' = [code |-> out.code, result |-> out.result]
    /\ ncalls' = ncalls + 1
    /\ now' = t
    /\ UNCHANGED <<p, input, pc, idx, current, result, err, trace,
                   subscribers, chans, received, pub, avars>>

\* The clock read by project.plan: still in the millisecond of the request
\* before, or in the next.  The other handlers only stamp their events with
\* the time; for them the clock is taken not to have moved.
Times == {now, now + 1}

LoadParams ==
    {Params(Malformed, ZeroParams)}
        \cup {Params("object", [ZeroParams EXCEPT !.Path = path]) : path \in Paths}

\* A plan_id no plan of the session has: the clock starts at 1.
OtherPlanID == PlanIDAt(0)

\* project.approve without params, and naming a plan.
ApproveParams ==
    {NoParams, Params("object", [ZeroParams EXCEPT !.PlanID = OtherPlanID])}

RejectParams ==
    {Params(Malformed, ZeroParams), NoParams,
     Params("object", [ZeroParams EXCEPT !.Feedback = "not this",
                                         !.PlanID = OtherPlanID])}

ProjectLoad ==
    \E params \in LoadParams, t \in {now} :
        \E out \in {projectLoad(Session, params, t)} :
            Handled("project.load", params, out, t)

ProjectPlan ==
    \E t \in Times : \E out \in {projectPlan(Session, t)} :
            Handled("project.plan", NoParams, out, t)

\* The handler of project.approve does not look at its params.
ProjectApprove ==
    \E params \in ApproveParams, t \in {now} :
        \E out \in {projectApprove(Session, t)} :
            Handled("project.approve", params, out, t)

ProjectReject ==
    \E params \in RejectParams, t \in {now} :
        \E out \in {projectReject(Session, params, t)} :
            Handled("project.reject", params, out, t)

ProjectRun ==
    \E params \in LoadParams, t \in {now} :
        \E out \in {projectRun(Session, params, t)} :
            Handled("project.run", params, out, t)

SessionNext ==
    ProjectLoad \/ ProjectPlan \/ ProjectApprove \/ ProjectReject \/ ProjectRun

\* ---------------------------------------------------------- checkpoints
\* The buckets NewBoltStore creates: the scopes of the store.
Buckets == {"project", "session", "step", "history"}

\* The keys of the model's stores.
StoreKeys == {"a", "b", "command", "index", "intent", "written_by"}

\* BoltStore.List: the entries of one scope, key -> JSON.
List(s, scope) ==
    [key \in {k \in StoreKeys : (scope \o "/" \o k) \in DOMAIN s} |->
        s[scope \o "/" \o key]]

\* BoltStore.Set with its error: the scope has no bucket, or the bolt
\* transaction fails (dbOk is FALSE); the store is written only without error.
BoltSet(s, scope, key, json, dbOk) ==
    IF scope \notin Buckets THEN [err |-> "scope not found", store |-> s]
    ELSE IF ~dbOk THEN [err |-> "update", store |-> s]
    ELSE [err |-> "", store |-> Set(s, scope, key, json)]

NoState == [scope \in {} |-> <<>>]

ZeroSnapshot == [ContextState |-> NoState, WorkdirHash |-> "", Timestamp |-> ZeroTime]

\* CaptureSnapshot at time t: the scopes it lists, those with entries kept.
\* (The handlers pass no workdir.)
CaptureSnapshot(s, workdir, t) ==
    LET scopes == <<"project", "session", "step">>
        filled == {scopes[i] : i \in {j \in DOMAIN scopes :
                                        DOMAIN List(s, scopes[j]) # {}}}
    IN [ContextState |-> [scope \in filled |-> List(s, scope)],
        WorkdirHash |-> "",
        Timestamp |-> t]

\* json.Marshal of a snapshot and json.Unmarshal of a file's content.  A
\* file is well-formed JSON of a snapshot, or it is not (`valid`).
Marshal(snap) ==
    [valid |-> TRUE, context_state |-> snap.ContextState,
     workdir_hash |-> snap.WorkdirHash, timestamp |-> snap.Timestamp]

Unmarshal(data) ==
    IF data.valid
    THEN [err |-> "", snap |-> [ContextState |-> data.context_state,
                                 WorkdirHash |-> data.workdir_hash,
                                 Timestamp |-> data.timestamp]]
    ELSE [err |-> "parse", snap |-> ZeroSnapshot]

\* What os.WriteFile leaves when it fails after truncating the file.
Truncated ==
    [valid |-> FALSE, context_state |-> NoState, workdir_hash |-> "",
     timestamp |-> ZeroTime]

NoFiles == [name \in {} |-> Truncated]

\* The outcomes of os.WriteFile: everything written, the file not opened,
\* or the write failing after the file was truncated.
WriteOutcomes == {"all", "none", "part"}

\* FileCheckpointManager.Save: os.WriteFile creates or truncates <name>.json.
Save(dir, name, state, wrote) ==
    CASE wrote = "all" ->
           [err |-> "", files |-> [n \in DOMAIN dir \cup {name} |->
                                      IF n = name THEN Marshal(state) ELSE dir[n]]]
      [] wrote = "none" -> [err |-> "open", files |-> dir]
      [] wrote = "part" ->
           [err |-> "write", files |-> [n \in DOMAIN dir \cup {name} |->
                                           IF n = name THEN Truncated ELSE dir[n]]]

\* FileCheckpointManager.Restore
Restore(dir, name) ==
    IF name \notin DOMAIN dir THEN [err |-> "read", snap |-> ZeroSnapshot]
    ELSE Unmarshal(dir[name])

\* The (scope, key) pairs of a snapshot.
Entries(snap) ==
    {e \in [scope : DOMAIN snap.ContextState, key : StoreKeys] :
        e.key \in DOMAIN snap.ContextState[e.scope]}

\* The orders in which RestoreSnapshot's two nested `range` loops may meet
\* the entries: the scopes in any order, the keys of a scope in any order.
EntryOrders(snap) ==
    {o \in [1..Cardinality(Entries(snap)) -> Entries(snap)] :
        /\ \A i, j \in DOMAIN o : o[i] = o[j] => i = j
        /\ \A i, j, k \in DOMAIN o :
               i < j /\ j < k /\ o[i].scope = o[k].scope => o[j].scope = o[i].scope}

\* RestoreSnapshot from the n-th entry on.
RECURSIVE RestoreSnapshotFrom(_, _, _, _, _)
RestoreSnapshotFrom(s, snap, order, failAt, n) ==
    IF n > Len(order) THEN [err |-> "", store |-> s]
    ELSE LET e == order[n]
             set == BoltSet(s, e.scope, e.key, snap.ContextState[e.scope][e.key],
                            n # failAt)
         IN IF set.err # "" THEN [err |-> "restore", store |-> s]
            ELSE RestoreSnapshotFrom(set.store, snap, order, failAt, n + 1)

\* Mutant: RestoreSnapshot that first empties the scopes it restores.
RestoreSnapshotReplaces(s, snap, order, failAt) ==
    LET Kept(k) == \A scope \in DOMAIN snap.ContextState, key \in StoreKeys :
                       k # scope \o "/" \o key
        kept == {k \in DOMAIN s : Kept(k)}
    IN RestoreSnapshotFrom([k \in kept |-> s[k]], snap, order, failAt, 1)

\* RestoreSnapshot: one store.Set for each entry, in the order the loops meet
\* them, returning at the first that fails (the failAt-th, 0 for none).
RestoreSnapshot(s, snap, order, failAt) ==
    RestoreSnapshotFrom(s, snap, order, failAt, 1)

\* What the handlers of the core methods work on and leave behind.
Core ==
    [store |-> store, files |-> files, history |-> history, code |-> 0,
     result |-> ""]

\* context.set
contextSet(c, params, dbOk, t) ==
    LET pp == ParseParams(params, [Scope |-> "", Key |-> "", Value |-> "null"])
        set == BoltSet(c.store, pp.p.Scope, pp.p.Key, pp.p.Value, dbOk)
    IN IF pp.code # 0 THEN Failed(c, pp.code)
       ELSE IF set.err # "" THEN Failed(c, CodeInternalError)
       ELSE [c EXCEPT !.store = set.store,
                      !.history = Emit(@, "context.change",
                                       pp.p.Scope \o "/" \o pp.p.Key, t),
                      !.result = "ok"]

\* checkpoint.save (the agent has a checkpoint manager)
checkpointSave(c, params, wrote, t) ==
    LET pp == ParseParams(params, [Name |-> ""])
        saved == Save(c.files, pp.p.Name, CaptureSnapshot(c.store, "", t), wrote)
    IN IF pp.code # 0 THEN Failed(c, pp.code)
       ELSE IF saved.err # ""
            THEN Failed([c EXCEPT !.files = saved.files], CodeInternalError)
            ELSE [c EXCEPT !.files = saved.files,
                           !.history = Emit(@, "checkpoint.save", pp.p.Name, t),
                           !.result = pp.p.Name]

\* checkpoint.restore
checkpointRestore(c, params, order, failAt, t) ==
    LET pp == ParseParams(params, [Name |-> ""])
        read == Restore(c.files, pp.p.Name)
        back == RestoreSnapshot(c.store, read.snap, order, failAt)
    IN IF pp.code # 0 THEN Failed(c, pp.code)
       ELSE IF read.err # "" THEN Failed(c, CodeInternalError)
       ELSE IF back.err # ""
            THEN Failed([c EXCEPT !.store = back.store], CodeInternalError)
            ELSE [c EXCEPT !.store = back.store,
                           !.history = Emit(@, "checkpoint.restore", pp.p.Name, t),
                           !.result = pp.p.Name]

\* One request of a core method handled.
Served(method, params, out) ==
    /\ ncalls < MaxRequests
    /\ store' = out.store
    /\ files' = out.files
    /\ history' = out.history
    /\ req' = [method |-> method, params |-> params]
    /\ resp' = [code |-> out.code, result |-> out.result]
    /\ ncalls' = ncalls + 1
    /\ UNCHANGED <<p, input, pc, idx, current, result, err, trace,
                   subscribers, chans, received, pub, now,
                   loadedSpec, pendingPlan, planID, plvars, ivars, hvars,
                   xvars>>

\* The params of the context.set requests: two keys of the session scope,
\* one of the history scope, and a scope the store does not have.
SetParams ==
    {Params("{}", [Scope |-> e[1], Key |-> e[2], Value |-> v]) :
        e \in {<<"session", "a">>, <<"session", "b">>, <<"history", "a">>},
        v \in {"1", "2"}}
    \cup {Params("{}", [Scope |-> "nope", Key |-> "a", Value |-> "1"])}
    \cup {Params(Malformed, [Scope |-> "", Key |-> "", Value |-> "null"])}

\* The params of the checkpoint requests: every checkpoint is named "cp".
CheckpointParams ==
    {Params("{}", [Name |-> "cp"]), Params(Malformed, [Name |-> ""])}

ContextSet ==
    \E params \in SetParams, dbOk \in BOOLEAN :
        \E out \in {contextSet(Core, params, dbOk, now)} :
            Served("context.set", params, out)

CheckpointSave ==
    \E params \in CheckpointParams, wrote \in WriteOutcomes :
        \E out \in {checkpointSave(Core, params, wrote, now)} :
            Served("checkpoint.save", params, out)

\* The snapshot checkpoint.restore would read for these params.
Stored(params) == Restore(files, ParseParams(params, [Name |-> ""]).p.Name).snap

CheckpointRestore ==
    \E params \in CheckpointParams :
        \E order \in EntryOrders(Stored(params)) :
            \E failAt \in 0..Len(order) :
                \E out \in {checkpointRestore(Core, params, order, failAt, now)} :
                    Served("checkpoint.restore", params, out)

CoreNext == ContextSet \/ CheckpointSave \/ CheckpointRestore

\* ------------------------------------------------------------ inspector
\* make(chan ApprovalAction, 1)
ApprovalCap == 1

\* The server after New: nothing in the channel, nobody receiving from it.
InspectorInit ==
    /\ approvalCh = <<>>
    /\ waiting = FALSE
    /\ got = <<>>
    /\ httpResp = [handler |-> "", code |-> 0, status |-> ""]
    /\ nposts = 0

\* select { case s.approvalCh <- a: ... default: ... }: the send goes through
\* if a receiver is blocked on the channel or the buffer has room.
trySend(a) ==
    IF waiting
    THEN [sent |-> TRUE, ch |-> approvalCh, waiting |-> FALSE, got |-> Append(got, a)]
    ELSE IF Len(approvalCh) < ApprovalCap
    THEN [sent |-> TRUE, ch |-> Append(approvalCh, a), waiting |-> FALSE, got |-> got]
    ELSE [sent |-> FALSE, ch |-> approvalCh, waiting |-> FALSE, got |-> got]

\* One request served by handleApprove or handleReject.
Answered(handler, method, a, status) ==
    /\ nposts < MaxPosts
    /\ nposts' = nposts + 1
    /\ IF method # "POST"
       THEN /\ httpResp' = [handler |-> handler, code |-> 405, status |-> ""]
            /\ UNCHANGED <<approvalCh, waiting, got>>
       ELSE \E sel \in {trySend(a)} :
               /\ approvalCh' = sel.ch
               /\ waiting' = sel.waiting
               /\ got' = sel.got
               /\ httpResp' = [handler |-> handler, code |-> 200,
                               status |-> IF sel.sent THEN status
                                          ELSE "no_pending_approval"]
    /\ UNCHANGED <<pvars, bvars, svars, plvars, cvars, hvars, xvars>>

\* Server.handleApprove
HandleApprove ==
    \E method \in {"POST", "GET"} :
        Answered("approve", method, [Action |-> "approve", Feedback |-> ""],
                 "approved")

\* Server.handleReject
HandleReject ==
    \E method \in {"POST", "GET"}, feedback \in {"", "why"} :
        Answered("reject", method, [Action |-> "reject", Feedback |-> feedback],
                 "rejected")

\* A consumer of the channel receives from it: it takes the buffered action,
\* or blocks until a handler sends one.  (The channel is the server's way to
\* hand approvals on; nothing in the repository receives from it.)
ReceiveApproval ==
    /\ ~waiting
    /\ IF approvalCh # <<>>
       THEN /\ got' = Append(got, Head(approvalCh))
            /\ approvalCh' = Tail(approvalCh)
            /\ UNCHANGED waiting
       ELSE /\ waiting' = TRUE
            /\ UNCHANGED <<approvalCh, got>>
    /\ UNCHANGED <<httpResp, nposts, pvars, bvars, svars, plvars, cvars, hvars,
                   xvars>>

InspectorNext == HandleApprove \/ HandleReject \/ ReceiveApproval

\* ----------------------------------------------------- JSON-RPC handler
CodeParseError == -32700
CodeInvalidRequest == -32600
CodeMethodNotFound == -32601

\* The functions a method can be registered with: one that returns its
\* params as result, one that returns an error.
HandlerFuncs == {"echo", "refuse"}

\* The methods of the model's requests and registrations.
Methods == {"echo", "fail", "nope"}

\* NewHandler, and no request handled yet.
HandlerInit ==
    /\ handlers = [m \in {} |-> ""]
    /\ invoked = <<>>
    /\ rpcReq = [valid |-> FALSE, jsonrpc |-> Nil, id |-> Nil, method |-> Nil,
                 params |-> Nil]
    /\ rpcResp = [JSONRPC |-> "", ID |-> Nil, Result |-> Nil, Error |-> Nil]

\* The lines read from stdin: text that is no JSON object, or an object with
\* some of the members jsonrpc, id, method and params (Nil: not there).
RawRequests ==
    [valid : {TRUE},
     jsonrpc : {Nil, Ptr("2.0"), Ptr("1.0")},
     id : {Nil, Ptr("1")},
     method : {Nil} \cup {Ptr(m) : m \in Methods},
     params : {Nil, Ptr("\"hello\"")}]
    \cup {[valid |-> FALSE, jsonrpc |-> Nil, id |-> Nil, method |-> Nil,
           params |-> Nil]}

\* json.Unmarshal into a Request: a member that is not there leaves the
\* field at its zero value.
UnmarshalRequest(data) ==
    [err |-> IF data.valid THEN "" ELSE "parse",
     req |-> [JSONRPC |-> IF data.jsonrpc = Nil THEN "" ELSE Deref(data.jsonrpc),
              ID |-> data.id,
              Method |-> IF data.method = Nil THEN "" ELSE Deref(data.method),
              Params |-> IF data.params = Nil THEN "" ELSE Deref(data.params)]]

NewResponse(id, res) ==
    [JSONRPC |-> "2.0", ID |-> id, Result |-> Ptr(res), Error |-> Nil]

NewErrorResponse(id, code, message) ==
    [JSONRPC |-> "2.0", ID |-> id, Result |-> Nil,
     Error |-> Ptr([Code |-> code, Message |-> message])]

\* A registered function called with the params.
Apply(fn, params) ==
    IF fn = "echo" THEN [result |-> params, rpcErr |-> Nil]
    ELSE [result |-> "", rpcErr |-> Ptr([Code |-> CodeCommandFailed,
                                        Message |-> "refused"])]

\* Handler.Handle: the response, and the function it called if it called one.
Handle(h, r) ==
    IF r.JSONRPC # "2.0"
    THEN [resp |-> NewErrorResponse(r.ID, CodeInvalidRequest, "invalid jsonrpc version"),
          called |-> <<>>]
    ELSE IF r.Method \notin DOMAIN h
    THEN [resp |-> NewErrorResponse(r.ID, CodeMethodNotFound,
                                    "method not found: " \o r.Method),
          called |-> <<>>]
    ELSE LET out == Apply(h[r.Method], r.Params)
             call == <<[fn |-> h[r.Method], params |-> r.Params]>>
         IN IF out.rpcErr # Nil
            THEN [resp |-> [JSONRPC |-> "2.0", ID |-> r.ID, Result |-> Nil,
                            Error |-> out.rpcErr],
                  called |-> call]
            ELSE [resp |-> NewResponse(r.ID, out.result), called |-> call]

\* Handler.HandleRaw
HandleRaw(h, data) ==
    LET parsed == UnmarshalRequest(data)
    IN IF parsed.err # ""
       THEN [resp |-> NewErrorResponse(Nil, CodeParseError, "parse error"),
             called |-> <<>>]
       ELSE Handle(h, parsed.req)

\* Handler.Register: overwrites what the method was registered with.
Register ==
    /\ \E method \in Methods \ {"nope"}, fn \in HandlerFuncs :
          /\ ~(method \in DOMAIN handlers /\ handlers[method] = fn)
          /\ handlers' = [m \in DOMAIN handlers \cup {method} |->
                             IF m = method THEN fn ELSE handlers[m]]
    /\ UNCHANGED <<invoked, rpcReq, rpcResp, pvars, bvars, svars, plvars, cvars,
                   ivars, xvars>>

\* One line of stdin handled.
HandleLine ==
    /\ \E data \in RawRequests :
          \E out \in {HandleRaw(handlers, data)} :
              /\ Len(invoked) + Len(out.called) <= MaxInvocations
              /\ invoked' = invoked \o out.called
              /\ rpcReq' = data
              /\ rpcResp' = out.resp
    /\ UNCHANGED <<handlers, pvars, bvars, svars, plvars, cvars, ivars, xvars>>

HandlerNext == Register \/ HandleLine

\* ------------------------------------------------- verification engine
\* The checkers of the model's assertions (two of the built-in ones).
builtinCheckers == {"not_empty", "contains"}

\* GetChecker: nil for a type that has no checker.
GetChecker(name) == IF name \in builtinCheckers THEN Ptr(name) ELSE Nil

\* Envelope.PayloadString for a string payload or none.
PayloadString(env) == IF env.Payload = "nil" THEN "null" ELSE env.Payload

\* resolveTarget for the target "output".
resolveTarget(env, target) == PayloadString(env)

checkNotEmpty(env, assertion) ==
    LET value == resolveTarget(env, assertion.Target)
    IN [Assertion |-> assertion,
        Passed |-> env.Payload # "nil" /\ TrimSpace(value) # "" /\ value # "null"]

checkContains(env, assertion) ==
    LET value == resolveTarget(env, assertion.Target)
    IN [Assertion |-> assertion,
        Passed |-> Contains(Chars(value), Chars(assertion.Expected))]

\* checker(envelope, assertion) for the checker GetChecker returned.
CallChecker(checker, env, assertion) ==
    IF checker = "not_empty" THEN checkNotEmpty(env, assertion)
    ELSE checkContains(env, assertion)

\* The assertions intents are made of: two that pass on "hello", one that
\* never passes, and one of a type no checker is registered for.
Assertions ==
    {[Type |-> "not_empty", Target |-> "output", Expected |-> ""],
     [Type |-> "contains", Target |-> "output", Expected |-> "hello"],
     [Type |-> "contains", Target |-> "output", Expected |-> "missing"],
     [Type |-> "no_such_type", Target |-> "output", Expected |-> ""]}

\* No Verify called.
VerifyIdle ==
    /\ engine = [failFast |-> FALSE]
    /\ verifyIn = [envelope |-> ZeroEnvelope, intent |-> [Assertions |-> <<>>]]
    /\ verifyRun = [pc |-> "idle", k |-> 0, checked |-> <<>>,
                    result |-> [Passed |-> FALSE, Results |-> <<>>]]

\* NewEngine with or without WithFailFast(true), and the arguments of the
\* call of Verify to come.
VerifyInit ==
    /\ engine \in [failFast : BOOLEAN]
    /\ verifyIn \in [envelope : {NewEnvelope("hello"), NewEnvelope("")},
                     intent : [Assertions :
                         UNION {[1..n -> Assertions] : n \in 0..MaxAssertions}]]
    /\ verifyRun = [pc |-> "idle", k |-> 0, checked |-> <<>>,
                    result |-> [Passed |-> FALSE, Results |-> <<>>]]

\* Mutant: with fail_fast, an assertion of unknown type does not end Verify.
CheckAssertionUnknownGoesOn(e, run, env, assertion) ==
    LET checker == GetChecker(assertion.Type)
        next == [run EXCEPT !.k = @ + 1]
    IN IF checker = Nil
       THEN [next EXCEPT !.result.Results = Append(@, [Assertion |-> assertion,
                                                       Passed |-> FALSE]),
                         !.result.Passed = FALSE]
       ELSE LET ar == CallChecker(Deref(checker), env, assertion)
                r2 == [next EXCEPT !.checked = Append(@, run.k),
                                   !.result.Results = Append(@, ar)]
            IN IF ~ar.Passed
               THEN IF e.failFast
                    THEN [r2 EXCEPT !.result.Passed = FALSE, !.pc = "returned"]
                    ELSE [r2 EXCEPT !.result.Passed = FALSE]
               ELSE r2

\* One iteration of the loop of Verify, for intent.Assertions[run.k].
CheckAssertion(e, run, env, assertion) ==
    LET checker == GetChecker(assertion.Type)
        next == [run EXCEPT !.k = @ + 1]
    IN IF checker = Nil
       THEN LET r1 == [next EXCEPT !.result.Results =
                                       Append(@, [Assertion |-> assertion,
                                                  Passed |-> FALSE]),
                                   !.result.Passed = FALSE]
            IN IF e.failFast THEN [r1 EXCEPT !.pc = "returned"] ELSE r1
       ELSE LET ar == CallChecker(Deref(checker), env, assertion)
                r2 == [next EXCEPT !.checked = Append(@, run.k),
                                   !.result.Results = Append(@, ar)]
            IN IF ~ar.Passed
               THEN IF e.failFast
                    THEN [r2 EXCEPT !.result.Passed = FALSE, !.pc = "returned"]
                    ELSE [r2 EXCEPT !.result.Passed = FALSE]
               ELSE r2

\* Verify up to the loop.
VerifyBegin ==
    /\ verifyRun.pc = "idle"
    /\ verifyRun' = [pc |-> "loop", k |-> 0, checked |-> <<>>,
                     result |-> [Passed |-> TRUE, Results |-> <<>>]]
    /\ UNCHANGED <<engine, verifyIn, pvars, bvars, svars, plvars, cvars, ivars,
                   hvars, wsClient, pipeCall>>

VerifyAssertion ==
    /\ verifyRun.pc = "loop"
    /\ verifyRun.k < Len(verifyIn.intent.Assertions)
    /\ verifyRun' = CheckAssertion(engine, verifyRun, verifyIn.envelope,
                                   verifyIn.intent.Assertions[verifyRun.k + 1])
    /\ UNCHANGED <<engine, verifyIn, pvars, bvars, svars, plvars, cvars, ivars,
                   hvars, wsClient, pipeCall>>

\* The loop is over: return result, nil.
VerifyReturn ==
    /\ verifyRun.pc = "loop"
    /\ verifyRun.k >= Len(verifyIn.intent.Assertions)
    /\ verifyRun' = [verifyRun EXCEPT !.pc = "returned"]
    /\ UNCHANGED <<engine, verifyIn, pvars, bvars, svars, plvars, cvars, ivars,
                   hvars, wsClient, pipeCall>>

VerifyNext == VerifyBegin \/ VerifyAssertion \/ VerifyReturn

\* ------------------------------------------------ inspector event stream
\* Server.Start subscribes to every event of the bus and starts
\* broadcastEvents on the channel; handleWebSocket serves one client of the
\* stream.  Events are written to the client as their JSON encoding, which
\* tells any two events of the model apart, so the model writes the events.

\* The channel Start got from Subscribe.
ServerCh == "inspector"

\* The bus after Start: the server subscribed without filter.
StartedBus ==
    /\ history = <<>>
    /\ subscribers = <<[ch |-> ServerCh, filter |-> {}]>>
    /\ chans = (ServerCh :> [buf |-> <<>>, closed |-> FALSE])
    /\ received = (ServerCh :> <<>>)
    /\ pub = [q \in Publishers |-> IdlePub]
    /\ now = 1

\* No client has connected to the stream.
StreamIdle ==
    wsClient = [pc |-> "none", send |-> <<>>, written |-> <<>>]

\* client is in s.wsClients
Registered(c) == c.pc \in {"connected", "streaming"}

\* broadcastEvents: one turn of the loop over the server's channel; a
\* client whose send channel is full does not get the event.
BroadcastEvent ==
    /\ chans[ServerCh].buf # <<>>
    /\ chans' = [chans EXCEPT ![ServerCh].buf = Tail(@)]
    /\ wsClient' =
           IF Registered(wsClient) /\ Len(wsClient.send) < ChanCap
           THEN [wsClient EXCEPT !.send = Append(@, Head(chans[ServerCh].buf))]
           ELSE wsClient
    /\ UNCHANGED <<history, subscribers, received, pub, now, pvars, svars,
                   plvars, cvars, ivars, hvars, vvars, pipeCall>>

\* handleWebSocket up to the registration of the client.
WsConnect ==
    /\ wsClient.pc = "none"
    /\ wsClient' = [wsClient EXCEPT !.pc = "connected"]
    /\ UNCHANGED <<bvars, pvars, svars, plvars, cvars, ivars, hvars, vvars,
                   pipeCall>>

\* handleWebSocket: the history of the bus written as initial state.
WsReplay ==
    /\ wsClient.pc = "connected"
    /\ wsClient' = [wsClient EXCEPT !.pc = "streaming",
                                    !.written = @ \o History(history, ZeroTime)]
    /\ UNCHANGED <<bvars, pvars, svars, plvars, cvars, ivars, hvars, vvars,
                   pipeCall>>

\* handleWebSocket: one message taken from client.send and written.
WsStream ==
    /\ wsClient.pc = "streaming"
    /\ wsClient.send # <<>>
    /\ wsClient' = [wsClient EXCEPT !.send = Tail(@),
                                    !.written = Append(@, Head(wsClient.send))]
    /\ UNCHANGED <<bvars, pvars, svars, plvars, cvars, ivars, hvars, vvars,
                   pipeCall>>

StreamNext ==
    \/ \E q \in Publishers : PublishCall(q) \/ PublishLocked(q) \/ PublishSend(q)
    \/ BroadcastEvent
    \/ WsConnect
    \/ WsReplay
    \/ WsStream

\* ------------------------------------------------- the pipeline method
\* The steps a pipeline request is made of (PipelineStepDef): a command of
\* the agent's registry, args or none, an intent or none, no assertion or
\* one that the command's output does not meet, and an on_error.
PipelineStepDefs ==
    [Command : {"x:wrap", "x:fail"},
     Args : {<<>>, <<"path=out.md">>},
     Intent : {""},
     Verify : {<<>>, <<[Type |-> "contains", Target |-> "output",
                        Expected |-> "missing"]>>},
     OnError : {"", "skip"}]

\* The params of the pipeline requests: text that is no object, or
\* PipelineParams with up to MaxSteps steps.
PipelineParamsSet ==
    {Params(Malformed, [Steps |-> <<>>])}
        \cup {Params("object", [Steps |-> steps]) :
                steps \in UNION {[1..n -> PipelineStepDefs] : n \in 0..MaxSteps}}

\* No pipeline request made.
PipelineMethodIdle ==
    pipeCall = [params |-> Params("null", [Steps |-> <<>>]), done |-> FALSE,
                code |-> 0, response |-> [success |-> FALSE, steps |-> 0]]

\* The handler of the `pipeline` method: the steps it builds from the
\* params, the run of the pipeline made of them on the session's store with
\* the bus as publisher, and the response.
pipelineMethod(h, st, params, t) ==
    LET pp == ParseParams(params, [Steps |-> <<>>])
        steps == [n \in DOMAIN pp.p.Steps |->
                    [Command |-> pp.p.Steps[n].Command,
                     Args |-> <<>>,
                     Intent |-> pp.p.Steps[n].Intent,
                     OnError |-> pp.p.Steps[n].OnError,
                     CheckpointBefore |-> FALSE]]
        r == Run([ZeroSt EXCEPT !.store = st], steps, NewEnvelope("nil"))
        Published(evs) ==
            [n \in DOMAIN evs |->
                [Type |-> evs[n].name, Timestamp |-> t, Data |-> evs[n].info]]
        IsEv(c) == c.kind = "event"
    IN IF pp.code # 0
       THEN [code |-> pp.code, run |-> [ZeroSt EXCEPT !.store = st], history |-> h,
             response |-> [success |-> FALSE, steps |-> 0]]
       ELSE [code |-> 0, run |-> r,
             history |-> h \o Published(SelectSeq(r.trace, IsEv)),
             response |-> [success |-> r.err = "" /\ r.result.Success,
                           steps |-> Len(r.result.Steps)]]

\* The agent loop handles the pipeline request.
PipelineMethod ==
    /\ ~pipeCall.done
    /\ \E out \in {pipelineMethod(history, store, pipeCall.params, now)} :
          /\ pipeCall' = [pipeCall EXCEPT !.done = TRUE, !.code = out.code,
                                          !.response = out.response]
          /\ history' = out.history
          /\ Becomes(out.run)
    /\ UNCHANGED <<p, input, subscribers, chans, received, pub, now, svars,
                   plvars, cvars, ivars, hvars, vvars, wsClient>>

PipelineMethodNext == PipelineMethod

\* ------------------------------------------------------- planner calls
\* The patterns a spec's allowed_commands are made of: the wildcard, a
\* namespace glob, exact names of commands that may or may not be
\* registered, and one that validation refuses.
Patterns == {"*", "fs:*", "fs:list", "fs:write", "db:PUT", "list"}

\* The commands a registry may hold.
Registrable == {"fs:list", "fs:read", "fs:write"}

SeqsUpTo(S, n) == UNION {[1..k -> S] : k \in 0..n}

ProjectSpecs ==
    {[APIVersion |-> "agsh/v1", Kind |-> "ProjectSpec", Name |-> "p",
      Goal |-> "g", AllowedCommands |-> pats, Output |-> [Path |-> "out.md"]] :
        pats \in SeqsUpTo(Patterns, MaxPatterns)}

LastTwo(seq) == IF Len(seq) > 2 THEN Tail(seq) ELSE seq

\* No planner at work.
PlannerIdle ==
    /\ projSpec = ZeroProjectSpec /\ registry = {} /\ plans = <<>>
    /\ files = NoFiles
    /\ InspectorInit
    /\ HandlerInit

\* A spec and a registry, no plan generated yet.
PlannerInit ==
    /\ projSpec \in ProjectSpecs
    /\ registry \in SUBSET Registrable
    /\ plans = <<>>
    /\ files = NoFiles
    /\ InspectorInit
    /\ HandlerInit

Planned(lister) ==
    /\ \E g \in {GeneratePlan(projSpec, lister)} :
           plans' = LastTwo(Append(plans, [lister |-> lister # Nil, err |-> g.err,
                                           plan |-> g.plan]))
    /\ UNCHANGED <<projSpec, registry, pvars, bvars, svars, cvars, ivars, hvars,
                   xvars>>

\* The orders of the loops over the registry's map in one call of the
\* planner: one for each pattern that MatchGlob is called for.
RECURSIVE OrdersFor(_, _)
OrdersFor(patterns, r) ==
    IF patterns = <<>> THEN {<<>>}
    ELSE {<<first>> \o rest :
            first \in (IF Contains(Chars(Head(patterns)), Chars("*"))
                       THEN Orders(r) ELSE {<<>>}),
            rest \in OrdersFor(Tail(patterns), r)}

\* GeneratePlan with the registry-backed lister (run.go, agent.go): every
\* MatchGlob goes over the registry's map in an order of its own.
PlanWithRegistry ==
    \E orders \in OrdersFor(projSpec.AllowedCommands, registry) :
        Planned(RegistryLister(registry, orders))

\* GeneratePlan(spec, nil)
PlanWithoutLister == Planned(NilLister)

PlannerNext == PlanWithRegistry \/ PlanWithoutLister

\* The added components with no call made on them.
XIdle == VerifyIdle /\ StreamIdle /\ PipelineMethodIdle

\* The pipeline, the bus, the session, the planner, the checkpoints, the
\* inspector and the handler with no request made and no pipeline to run.
IdleOffBus ==
    /\ PipelineInit
    /\ SessionInit
    /\ PlannerIdle
    /\ p = [Executor |-> FALSE, Events |-> FALSE, Verifier |-> FALSE,
            Checkpointer |-> FALSE, Context |-> FALSE, NSteps |-> 0]

Idle == BusInit /\ IdleOffBus

\* ------------------------------------------------------- specifications
\* A pipeline run, the bus left alone.
Init == PipelineInit /\ BusInit /\ SessionInit /\ PlannerIdle /\ XIdle

Spec == Init /\ [][PipelineNext]_vars

\* The bus used by its publishers and subscribers, no pipeline running.
InitBus ==
    /\ BusInit
    /\ PipelineInit
    /\ SessionInit
    /\ PlannerIdle
    /\ XIdle
    /\ p = [Executor |-> FALSE, Events |-> FALSE, Verifier |-> FALSE,
            Checkpointer |-> FALSE, Context |-> FALSE, NSteps |-> 0]

SpecBus == InitBus /\ [][BusNext]_vars

\* An agent session: requests handled one after the other.  The pipeline of
\* executeAgentPlan has an executor, the bus as publisher, the store and a
\* checkpointer, and no verifier; every plan of the model has one step.
InitSession ==
    /\ BusInit
    /\ PipelineInit
    /\ SessionInit
    /\ PlannerIdle
    /\ XIdle
    /\ p = [Executor |-> TRUE, Events |-> TRUE, Verifier |-> FALSE,
            Checkpointer |-> TRUE, Context |-> TRUE, NSteps |-> 1]

SpecSession == InitSession /\ [][SessionNext]_vars

\* The planner called on one spec with one registry.
InitPlanner ==
    /\ PipelineInit
    /\ BusInit
    /\ SessionInit
    /\ PlannerInit
    /\ XIdle
    /\ p = [Executor |-> FALSE, Events |-> FALSE, Verifier |-> FALSE,
            Checkpointer |-> FALSE, Context |-> FALSE, NSteps |-> 0]

SpecPlanner == InitPlanner /\ [][PlannerNext]_vars

\* An agent session of context.set, checkpoint.save and checkpoint.restore
\* requests, handled one after the other.  The checkpoint directory is empty
\* at the start.
SpecCheckpoint == InitBus /\ [][CoreNext]_vars

\* The inspector's approve and reject endpoints and a consumer of the
\* approval channel.
SpecInspector == InitBus /\ [][InspectorNext]_vars

\* A JSON-RPC handler: methods registered, lines handled.
SpecHandler == InitBus /\ [][HandlerNext]_vars

\* One call of Verify on an engine.
InitVerify == Idle /\ VerifyInit /\ StreamIdle /\ PipelineMethodIdle

SpecVerify == InitVerify /\ [][VerifyNext]_vars

\* The inspector started on a bus: events published, broadcast to the
\* client of the event stream, which connects at any time.
InitStream ==
    StartedBus /\ IdleOffBus /\ VerifyIdle /\ StreamIdle /\ PipelineMethodIdle

SpecStream == InitStream /\ [][StreamNext]_vars

\* An agent session that is sent one `pipeline` request.  Its pipeline has
\* an executor, the bus as publisher, the store and a checkpointer, and no
\* verifier.
InitPipelineMethod ==
    /\ BusInit
    /\ PipelineInit
    /\ SessionInit
    /\ PlannerIdle
    /\ VerifyIdle
    /\ StreamIdle
    /\ pipeCall \in [params : PipelineParamsSet, done : {FALSE}, code : {0},
                     response : {[success |-> FALSE, steps |-> 0]}]
    /\ p = [Executor |-> TRUE, Events |-> TRUE, Verifier |-> FALSE,
            Checkpointer |-> TRUE, Context |-> TRUE,
            NSteps |-> Len(pipeCall.params.p.Steps)]

SpecPipelineMethod == InitPipelineMethod /\ [][PipelineMethodNext]_vars

\* Pipeline runs on a store, of steps with and without an intent.
InitScope == Init /\ p.Executor /\ p.Context /\ ~p.Checkpointer

SpecScope == InitScope /\ [][ScopeNext]_vars

\* ------------------------------------------------- properties: pipeline

\* Every iteration appends one StepResult, so result.Steps[i + 1] is the
\* record of step i and carries the step itself.
StepOf(i) == result.Steps[i + 1].Step

IsEvent(c, type) == c.kind = "event" /\ c.name = type

ExecFailedAt(j) == trace[j].kind = "exec" /\ trace[j].info = "error"

VerifyFailedAt(j) == trace[j].kind = "verify" /\ trace[j].info = "false"

NoExecAfterStep(i) ==
    \A m \in DOMAIN trace : trace[m].kind = "exec" => trace[m].step <= i

EndsWithFailureEvent(i) ==
    /\ trace # <<>>
    /\ IsEvent(trace[Len(trace)], "pipeline.end")
    /\ trace[Len(trace)].info = "false"
    /\ trace[Len(trace)].step = i
    /\ Cardinality({m \in DOMAIN trace : IsEvent(trace[m], "pipeline.end")}) = 1

\* C1: whenever the executor returns an error for step i and the step's
\* on_error is `skip`, the StepResult stored for step i has status `skipped`
\* and the run goes on to step i + 1.
C1_SkippedStatusStored ==
    \A j \in DOMAIN trace :
        (ExecFailedAt(j) /\ StepOf(trace[j].step).OnError = "skip") =>
            /\ result.Steps[trace[j].step + 1].Status = "skipped"
            /\ idx > trace[j].step

C3_VerifyFailureStopsRun ==
    \A j \in DOMAIN trace :
        (VerifyFailedAt(j) /\ StepOf(trace[j].step).OnError # "skip") =>
            LET i == trace[j].step IN
            /\ Len(result.Steps) = i + 1
            /\ result.Steps[i + 1].Status = "verify_failed"
            /\ result.Success = FALSE
            /\ pc = "returned" /\ err # ""
            /\ NoExecAfterStep(i)

C3_Witness ==
    \E j \in DOMAIN trace :
        /\ VerifyFailedAt(j)
        /\ trace[j].step = 1
        /\ StepOf(1).OnError = ""
        /\ pc = "returned"

\* The envelope of the last step among the first n that committed (status
\* `ok`), or Run's input if none of them did.
RECURSIVE LastCommitted(_)
LastCommitted(n) ==
    IF n = 0 THEN input
    ELSE IF result.Steps[n].Status = "ok" THEN result.Steps[n].Output
    ELSE LastCommitted(n - 1)

SkippedAt(k) ==
    /\ k \in DOMAIN result.Steps
    /\ result.Steps[k].Status # "ok"
    /\ result.Steps[k].Step.OnError = "skip"

AllCommitted ==
    /\ Len(result.Steps) = p.NSteps
    /\ \A k \in DOMAIN result.Steps : result.Steps[k].Status = "ok"

\* C5: for every successful run of n steps (each of the n steps committed),
\* len(result.Output.provenance) is len(input.provenance) + n whatever the
\* commands return, and the appended provenance steps name the commands in
\* execution order.
C5_ProvenanceGrowsByStepCount ==
    (pc = "returned" /\ err = "" /\ p.Executor /\ AllCommitted) =>
        /\ Len(result.Output.Provenance) = Len(input.Provenance) + p.NSteps
        /\ \A k \in 1..p.NSteps :
              result.Output.Provenance[Len(input.Provenance) + k].Command
                  = StepOf(k - 1).Command

SavesFor(i) ==
    {j \in DOMAIN trace : trace[j].kind = "save" /\ trace[j].step = i}

ExecsFor(i) ==
    {j \in DOMAIN trace : trace[j].kind = "exec" /\ trace[j].step = i}

\* C6: for every step i with checkpoint_before=true, a checkpointer being
\* present, SaveCheckpoint is called exactly once, with the name
\* step-<i>-<command>, before the executor is called for step i; for a step
\* without the flag it is never called.
C6_CheckpointOncePerFlaggedStep ==
    /\ \A j \in DOMAIN trace :
          trace[j].kind = "save" => trace[j].step + 1 \in DOMAIN result.Steps
    /\ \A k \in DOMAIN result.Steps :
          LET i == k - 1
              step == result.Steps[k].Step
          IN IF step.CheckpointBefore /\ p.Checkpointer
             THEN /\ Cardinality(SavesFor(i)) = 1
                  /\ Cardinality(ExecsFor(i)) = 1
                  /\ \A j \in SavesFor(i) :
                        /\ trace[j].name = "step-" \o ToString(i) \o "-" \o step.Command
                        /\ \A m \in ExecsFor(i) : j < m
             ELSE SavesFor(i) = {}

C6_Witness ==
    /\ Len(result.Steps) = 2
    /\ ~result.Steps[1].Step.CheckpointBefore
    /\ SavesFor(0) = {}
    /\ \E j \in SavesFor(1) : trace[j].name = "step-1-wrap"

\* The run state after the first k recorded steps if every SaveCheckpoint
\* call had returned nil, the verifier answering as it did.
RECURSIVE AllSaved(_)
AllSaved(k) ==
    IF k = 0 THEN Started(ZeroSt, input)
    ELSE Iterate(AllSaved(k - 1), result.Steps[k].Step, TRUE,
                 result.Steps[k].VerifyPassed # "false")

AllSavedRun ==
    LET r == AllSaved(Len(result.Steps))
    IN IF pc = "returned" /\ r.pc = "loop" THEN Finished(r) ELSE r

\* The trace with every failed save read as a successful one.
AsSaved(t) ==
    [j \in DOMAIN t |->
        IF t[j].kind = "save" THEN [t[j] EXCEPT !.info = "ok"]
        ELSE IF IsEvent(t[j], "checkpoint.error")
             THEN [t[j] EXCEPT !.name = "checkpoint.saved"]
             ELSE t[j]]

SaveFailedAt(j) == trace[j].kind = "save" /\ trace[j].info = "error"

\* C7: if SaveCheckpoint returns an error for step i, Run publishes
\* checkpoint.error and then runs step i and all later steps exactly as if
\* the save had succeeded: result (success, output, steps), the returned
\* error, the store and every other call are the same.
C7_CheckpointFailureIsNotFatal ==
    /\ \A j \in DOMAIN trace :
          (SaveFailedAt(j) /\ p.Events) =>
              /\ j + 1 \in DOMAIN trace
              /\ IsEvent(trace[j + 1], "checkpoint.error")
              /\ trace[j + 1].step = trace[j].step
    /\ \A j \in DOMAIN trace :
          SaveFailedAt(j) => ExecsFor(trace[j].step) # {}
    /\ (\E j \in DOMAIN trace : SaveFailedAt(j)) =>
          LET r == AllSavedRun IN
          /\ r.result = result
          /\ r.err = err
          /\ r.pc = pc
          /\ r.current = current
          /\ r.store = store
          /\ r.trace = AsSaved(trace)

C7_Witness ==
    /\ pc = "returned" /\ err = "" /\ result.Success
    /\ Len(result.Steps) = 2
    /\ p.Events
    /\ \E j \in SavesFor(0) : SaveFailedAt(j)
    /\ result.Output.Payload = "w(w(hello))"

SetsFor(i) ==
    {m \in DOMAIN trace : trace[m].kind = "set" /\ trace[m].step = i}

WroteBefore(k, i, key, json) ==
    \E m \in SetsFor(i) : m < k /\ trace[m].name = key /\ trace[m].info = json

\* C8: for every step i that commits, every store write made for the step
\* (the step-scope writes and the command's own) is made before command.end
\* of step i is published and is in the store when it is published, and no
\* event of step i + 1 is published before command.end of step i.
C8_StoreWritesBeforeCommandEnd ==
    /\ \A k \in DOMAIN trace :
          IsEvent(trace[k], "command.end") =>
              LET i == trace[k].step IN
              /\ \A m \in SetsFor(i) : m < k
              /\ p.Context =>
                    /\ WroteBefore(k, i, "step/command", JsonString(StepOf(i).Command))
                    /\ WroteBefore(k, i, "step/index", JsonInt(i))
                    /\ StepOf(i).Command = "wrap" =>
                          WroteBefore(k, i, "session/written_by", "\"wrap\"")
              /\ \A m \in DOMAIN trace :
                    (trace[m].kind = "event" /\ trace[m].step = i + 1) => m > k
    /\ (trace # <<>> /\ IsEvent(trace[Len(trace)], "command.end")) =>
          \A m \in SetsFor(trace[Len(trace)].step) :
              /\ trace[m].name \in DOMAIN store
              /\ store[trace[m].name] = trace[m].info

C8_Witness ==
    /\ p.Context /\ p.Events
    /\ trace # <<>>
    /\ IsEvent(trace[Len(trace)], "command.end")
    /\ trace[Len(trace)].step = 1
    /\ StepOf(1).Command = "wrap"
    /\ \E k \in DOMAIN trace : IsEvent(trace[k], "command.end") /\ trace[k].step = 0
    /\ store["step/index"] = "1"

\* ------------------------------------------------------------ event bus
InFlight(q) == pub[q].pc \in {"lock", "send"}

InHistory(h, ev) == \E n \in DOMAIN h : h[n] = ev

\* C9: Publish always returns after a bounded number of steps, whatever the
\* subscribers do.  A goroutine in Publish can always take its next step
\* (no subscriber, full or idle, makes it wait); each step it takes is the
\* locked section, one more turn of the loop over its copy of the
\* subscribers, or the return, never an abnormal end; and when it returns
\* the event is in history.
C9_PublishReturns ==
    /\ [](\A q \in Publishers :
            InFlight(q) => ENABLED (PublishLocked(q) \/ PublishSend(q)))
    /\ [][\A q \in Publishers :
            (InFlight(q) /\ pub'[q] # pub[q]) =>
               /\ pub'[q].pc \in {"send", "idle"}
               /\ (pub[q].pc = "send" /\ pub'[q].pc = "send") =>
                     /\ pub'[q].k = pub[q].k + 1
                     /\ pub'[q].subs = pub[q].subs
               /\ pub'[q].pc = "idle" => InHistory(history', pub[q].ev)]_vars

\* The subscriber at position b of the copy q works through has not had its
\* turn, matches the event, and its channel is open with free capacity.
OwedTo(q, b) ==
    LET P == pub[q]
        c == chans[P.subs[b].ch]
    IN /\ b \in DOMAIN P.subs
       /\ IF P.pc = "panicked" THEN b > P.k ELSE b >= P.k
       /\ Matches(P.subs[b], P.ev)
       /\ ~c.closed
       /\ ~IsFull(c)

\* C10: when a subscriber's channel is full at the time event e is
\* published, e is dropped for that subscriber only.  e is in history; the
\* turn of a subscriber whose filter matches and whose channel has free
\* capacity puts e into its channel; and Publish does not end while a
\* subscriber that matches and has free capacity is still owed e.
C10_DroppedForFullSubscriberOnly ==
    /\ [](\A q \in Publishers :
            (pub[q].pc \in {"send", "panicked"} /\ pub[q].fullAtPub # {}) =>
               /\ InHistory(history, pub[q].ev)
               /\ pub[q].pc = "panicked" =>
                     \A b \in DOMAIN pub[q].subs : ~OwedTo(q, b))
    /\ [][\A q \in Publishers :
            (pub[q].pc = "send" /\ pub[q].fullAtPub # {} /\ pub'[q] # pub[q]) =>
               LET P == pub[q]
                   ch == P.subs[P.k].ch
               IN IF OwedTo(q, P.k)
                  THEN chans'[ch].buf = Append(chans[ch].buf, P.ev)
                  ELSE chans'[ch].buf = chans[ch].buf]_vars

\* The events subscriber s has been handed so far, in the order of the sends.
Delivered(s) == received[s] \o chans[s].buf

Quiet == \A q \in Publishers : pub[q].pc = "idle"

\* C11: history holds every published event exactly once, in the order in
\* which the Publish calls took effect (their locked sections), whatever
\* the subscribers dropped: it grows by exactly the event of the call that
\* goes through its locked section and changes in no other step, no event
\* is in it twice, and History(zero time) returns all of it in that order.
C11_HistoryIsTheOrderedStream ==
    /\ [](\A i, j \in DOMAIN history : history[i] = history[j] => i = j)
    /\ [](History(history, ZeroTime) = history)
    /\ [](\A q \in Publishers :
            pub[q].pc \in {"send", "panicked"} => InHistory(history, pub[q].ev))
    /\ [][/\ \A q \in Publishers :
               (pub[q].pc = "lock" /\ pub'[q] # pub[q]) =>
                   history' = Append(history, pub[q].ev)
          /\ history' # history =>
               \E q \in Publishers : pub[q].pc = "lock" /\ pub'[q] # pub[q]]_vars

\* Two events went into history in the opposite order of their Publish
\* calls, and a subscriber to all events got the first and dropped the second.
C11_Witness ==
    /\ Quiet
    /\ Len(history) = 2
    /\ history[1].Data > history[2].Data
    /\ History(history, ZeroTime) = history
    /\ \E n \in DOMAIN subscribers :
          /\ subscribers[n].filter = {}
          /\ Delivered(subscribers[n].ch) = <<history[1]>>
          /\ received[subscribers[n].ch] = <<>>

\* C12: the history has a configured capacity: it never holds more than
\* MaxEntries events, and a publish that finds it at capacity evicts the
\* oldest event.
C12_HistoryWithinCapacity ==
    /\ [](Len(history) <= MaxEntries)
    /\ [][\A q \in Publishers :
            (pub[q].pc = "lock" /\ pub'[q] # pub[q]
               /\ Len(history) = MaxEntries /\ MaxEntries > 0) =>
                  history' = Append(Tail(history), pub[q].ev)]_vars

\* The place of an event in history.
Pos(e) == CHOOSE n \in DOMAIN history : history[n] = e

\* C13: for every subscriber, the events it receives are a subsequence of
\* history, in history's order, also with several goroutines in Publish.
C13_ReceivedInPublicationOrder ==
    \A s \in DOMAIN chans :
        LET d == Delivered(s)
        IN /\ \A i \in DOMAIN d : InHistory(history, d[i])
           /\ \A i, j \in DOMAIN d : i < j => Pos(d[i]) < Pos(d[j])

\* The subscriber goroutine q is about to send to.
Target(q) == pub[q].subs[pub[q].k]

\* C14: Publish and Unsubscribe are safe to run concurrently: Publish never
\* sends on a channel that Unsubscribe has closed.
C14_NoSendOnClosedChannel ==
    \A q \in Publishers :
        /\ pub[q].pc # "panicked"
        /\ (pub[q].pc = "send" /\ Matches(Target(q), pub[q].ev)) =>
              ~chans[Target(q).ch].closed

\* -------------------------------------------------------- agent session
\* This step is the handling of a request for method m.
Handles(m) == ncalls' = ncalls + 1 /\ req'.method = m

\* What a request that has no effect leaves alone.
SessionUnchanged ==
    UNCHANGED <<loadedSpec, pendingPlan, planID, history, store>>

\* C15: project.plan called while no spec is loaded returns -32004
\* (CodeNoPendingPlan), creates no pending plan, assigns no plan_id and
\* publishes no event.
C15_PlanWithoutSpec ==
    [][(Handles("project.plan") /\ loadedSpec = Nil) =>
          /\ resp'.code = CodeNoPendingPlan
          /\ CodeNoPendingPlan = -32004
          /\ pendingPlan' = Nil
          /\ planID' = planID
          /\ history' = history
          /\ SessionUnchanged]_vars

\* project.plan was refused for want of a spec, in a session that has
\* published events before.
C15_Witness ==
    /\ req.method = "project.plan"
    /\ resp.code = CodeNoPendingPlan
    /\ loadedSpec = Nil
    /\ pendingPlan = Nil
    /\ planID = ""
    /\ history # <<>>

\* C16 as stated: project.approve or project.reject called while the
\* pending-plan slot is empty returns NoPendingPlan (-32004) and changes
\* nothing: loaded spec, pending plan and plan_id are unchanged, no event is
\* published and no pipeline is run.
C16_EmptySlotRefused ==
    [][((Handles("project.approve") \/ Handles("project.reject"))
          /\ pendingPlan = Nil) =>
             /\ resp'.code = CodeNoPendingPlan
             /\ SessionUnchanged]_vars

\* C16, amended: the same for every project.approve, and for every
\* project.reject whose params parse; a project.reject whose params do not
\* parse returns InvalidParams, and changes nothing either.
C16_EmptySlotRefusedOnceParsed ==
    [][((Handles("project.approve") \/ Handles("project.reject"))
          /\ pendingPlan = Nil) =>
             /\ resp'.code =
                  IF req'.method = "project.reject" /\ req'.params.json = Malformed
                  THEN CodeInvalidParams ELSE CodeNoPendingPlan
             /\ CodeNoPendingPlan = -32004
             /\ SessionUnchanged]_vars

\* A project.reject with feedback was refused after the plan had been
\* approved: the slot is empty, the plan_id of the approved plan still set.
C16_Witness ==
    /\ req.method = "project.reject"
    /\ req.params.json = "object"
    /\ resp.code = CodeNoPendingPlan
    /\ pendingPlan = Nil
    /\ planID # ""
    /\ loadedSpec # Nil
    /\ history # <<>>

\* The last event published has this type.
LastEventIs(type) == history # <<>> /\ history[Len(history)].Type = type

HasEvent(type) == \E n \in DOMAIN history : history[n].Type = type

\* C17: in every session state a pending plan was generated from the spec
\* that is loaded now: a successful project.load empties the pending-plan
\* slot, so a project.approve that comes after a load and before a new
\* project.plan returns NoPendingPlan.
C17_PendingPlanIsOfLoadedSpec ==
    /\ [](pendingPlan # Nil =>
            /\ loadedSpec # Nil
            /\ Deref(pendingPlan) = GeneratePlan(Deref(loadedSpec), AgentLister).plan)
    /\ [][(Handles("project.load") /\ resp'.code = 0) =>
             (pendingPlan' = Nil /\ planID' = "")]_vars
    /\ [][(req.method = "project.load" /\ resp.code = 0
             /\ Handles("project.approve")) =>
               (resp'.code = CodeNoPendingPlan /\ SessionUnchanged)]_vars

\* A plan was generated for one spec, then another spec was loaded, and the
\* project.approve that followed was refused.
C17_Witness ==
    /\ req.method = "project.approve"
    /\ resp.code = CodeNoPendingPlan
    /\ HasEvent("plan.generated")
    /\ LastEventIs("spec.loaded")
    /\ loadedSpec # Nil
    /\ Deref(loadedSpec).Name = "b"
    /\ \E n \in DOMAIN history :
          history[n].Type = "spec.loaded" /\ history[n].Data = "a"
    /\ ~HasEvent("plan.approved")

\* How many events of this type h holds.
CountEvents(h, type) == Cardinality({n \in DOMAIN h : h[n].Type = type})

\* The plan_id approvals in h: the events of project.approve (project.run
\* publishes plan.approved with "auto").
Approvals(h) ==
    Cardinality({n \in DOMAIN h :
                    h[n].Type = "plan.approved" /\ h[n].Data # "auto"})

\* C18: project.approve runs the pending plan and empties the pending-plan
\* slot whether the run succeeds or fails, so a plan produced by one
\* project.plan call is executed at most once, and a second project.approve
\* without a new project.plan returns NoPendingPlan.
C18_ApproveRunsPlanOnce ==
    /\ [][(Handles("project.approve") /\ pendingPlan # Nil) =>
             /\ pendingPlan' = Nil
             /\ resp'.code \in {0, CodeCommandFailed}
             /\ Approvals(history') = Approvals(history) + 1
             /\ CountEvents(history', "pipeline.start")
                   = CountEvents(history, "pipeline.start") + 1]_vars
    /\ [](Approvals(history) + (IF pendingPlan = Nil THEN 0 ELSE 1)
             <= CountEvents(history, "plan.approval_requested"))
    /\ [][(req.method = "project.approve" /\ Handles("project.approve")) =>
             (resp'.code = CodeNoPendingPlan /\ SessionUnchanged)]_vars

\* The approved plan's run failed, and the project.approve that came next
\* was refused.
C18_Witness ==
    /\ req.method = "project.approve"
    /\ resp.code = CodeNoPendingPlan
    /\ pendingPlan = Nil
    /\ Approvals(history) = 1
    /\ LastEventIs("pipeline.end")
    /\ history[Len(history)].Data = "false"
    /\ CountEvents(history, "pipeline.start") = 1

\* The plan_ids project.plan has assigned, in the order of the calls: one
\* plan.approval_requested event is published for each.
PlanIDs ==
    LET Requested(e) == e.Type = "plan.approval_requested"
        evs == SelectSeq(history, Requested)
    IN [n \in DOMAIN evs |-> evs[n].Data]

\* The milliseconds a plan_id was made from.
PlanMs(id) == CHOOSE ms \in 0..(MaxCalls + 1) : PlanIDAt(ms) = id

\* C19: every successful project.plan call assigns a plan_id that differs
\* from every plan_id assigned earlier in the session, and the plan_ids are
\* strictly increasing in the order of the calls.
C19_PlanIDsIncrease ==
    \A i, j \in DOMAIN PlanIDs :
        i < j => (PlanIDs[i] # PlanIDs[j] /\ PlanMs(PlanIDs[i]) < PlanMs(PlanIDs[j]))

\* The request's params parse, its file loads, and the spec in it does not
\* pass validation.
SpecFailsValidation(r) ==
    /\ r.method \in {"project.load", "project.run"}
    /\ r.params.json # Malformed
    /\ LoadSpec(r.params.p.Path).err = ""
    /\ ~Valid(ValidateSpec(LoadSpec(r.params.p.Path).spec))

\* C20: a project.load or project.run whose spec fails validation returns
\* SpecInvalid (-32003) and has no side effects: loaded spec, pending plan,
\* plan_id, the store and the event history are as before the call.
C20_InvalidSpecHasNoEffect ==
    [][(ncalls' = ncalls + 1 /\ SpecFailsValidation(req')) =>
          /\ resp'.code = CodeSpecInvalid
          /\ CodeSpecInvalid = -32003
          /\ SessionUnchanged]_vars

\* project.run was refused for an invalid spec in a session that has a spec
\* loaded, a plan pending, events published and the store written.
C20_Witness ==
    /\ req.method = "project.run"
    /\ SpecFailsValidation(req)
    /\ resp.code = CodeSpecInvalid
    /\ loadedSpec # Nil
    /\ pendingPlan # Nil
    /\ planID # ""
    /\ store # EmptyStore
    /\ LastEventIs("plan.approval_requested")

\* -------------------------------------------------- properties: planner

\* The calls of the planner that returned a plan.
Generated == {n \in DOMAIN plans : plans[n].err = ""}

\* The calls that were given the registry-backed lister.
Listed == {n \in Generated : plans[n].lister}

\* C21: for one spec and one set of registered commands, any two calls of
\* GeneratePlan with the registry-backed lister return the same steps in the
\* same order.
C21_PlannerIsDeterministic ==
    \A m, n \in Listed : plans[m].plan.Steps = plans[n].plan.Steps

HasStar(pattern) == Contains(Chars(pattern), Chars("*"))

Elems(seq) == {seq[i] : i \in DOMAIN seq}

\* C22: when a lister is provided, the resolved allowed-commands list has no
\* duplicates, holds for each pattern with a * the registered commands that
\* match it and no other command than those, and holds an exact name if and
\* only if that name is registered.
C22_ResolvedCommandsAreTheUniverse ==
    \A n \in Listed :
        LET available == plans[n].plan.AllowedCommands
            patterns == Elems(projSpec.AllowedCommands)
        IN /\ \A i, j \in DOMAIN available : available[i] = available[j] => i = j
           /\ \A pat \in patterns :
                 HasStar(pat) =>
                    \A name \in registry :
                        matchGlob(pat, name) => name \in Elems(available)
           /\ \A name \in Elems(available) :
                 \/ name \in patterns /\ ~HasStar(name)
                 \/ \E pat \in patterns :
                       HasStar(pat) /\ name \in registry /\ matchGlob(pat, name)
           /\ \A pat \in patterns :
                 ~HasStar(pat) => (pat \in Elems(available) <=> pat \in registry)

\* The first entry of allowed_commands that brings a command into the plan:
\* the command itself or, with a lister, a pattern that matches it in the
\* registry.
FirstAt(n, cmd) ==
    LET Yields(i) ==
            \/ projSpec.AllowedCommands[i] = cmd
            \/ /\ plans[n].lister
               /\ HasStar(projSpec.AllowedCommands[i])
               /\ cmd \in registry
               /\ matchGlob(projSpec.AllowedCommands[i], cmd)
    IN CHOOSE i \in DOMAIN projSpec.AllowedCommands :
           Yields(i) /\ \A j \in 1..(i - 1) : ~Yields(j)

CommandsAtRisk(steps, risk) ==
    LET AtRisk(step) == step.Risk = risk
        chosen == SelectSeq(steps, AtRisk)
    IN [i \in DOMAIN chosen |-> chosen[i].Command]

\* C23: in every generated plan all read-only steps precede all write
\* steps, and within each class the steps are in the order in which their
\* commands appear in the spec's allowed_commands: without a lister they are
\* the entries of the class as they stand, with a lister no step's command
\* comes from a later entry than the command of a step after it.
C23_ReadsThenWritesInInputOrder ==
    \A n \in Generated :
        LET steps == plans[n].plan.Steps
        IN /\ \A i, j \in DOMAIN steps :
                 steps[i].Risk = "read-only" /\ steps[j].Risk = "write" => i < j
           /\ \A i \in DOMAIN steps : steps[i].Risk \in {"read-only", "write"}
           /\ ~plans[n].lister =>
                 /\ CommandsAtRisk(steps, "read-only")
                       = Reads(projSpec.AllowedCommands)
                 /\ CommandsAtRisk(steps, "write")
                       = Writes(projSpec.AllowedCommands)
           /\ plans[n].lister =>
                 \A i, j \in DOMAIN steps :
                     i < j /\ steps[i].Risk = steps[j].Risk =>
                        FirstAt(n, steps[i].Command) <= FirstAt(n, steps[j].Command)

\* C23 witness: a plan made with the lister from a write command followed
\* by a glob: two read-only steps, the second from the later entry, then the
\* write step of the first entry.
C23_Witness ==
    \E n \in Listed :
        LET steps == plans[n].plan.Steps
        IN /\ Len(steps) = 3
           /\ steps[1].Risk = "read-only" /\ steps[2].Risk = "read-only"
           /\ steps[3].Risk = "write"
           /\ FirstAt(n, steps[3].Command) < FirstAt(n, steps[1].Command)
           /\ projSpec.AllowedCommands[2] = "fs:*"

\* C24: in every generated plan each step whose command is classified write
\* (its lower-cased name contains one of the write verbs) has
\* checkpoint_before set and on_error `stop`, and no read-only step has
\* checkpoint_before set.
C24_WriteStepsCheckpointAndStop ==
    \A n \in Generated :
        \A i \in DOMAIN plans[n].plan.Steps :
            LET step == plans[n].plan.Steps[i]
            IN IF isWriteCommand(step.Command)
               THEN step.CheckpointBefore /\ step.OnError = "stop" /\ step.Risk = "write"
               ELSE ~step.CheckpointBefore /\ step.Risk = "read-only"

\* C24 witness: a plan with a read-only step and two write steps, one of
\* them a write only by its lower-cased name.
C24_Witness ==
    \E n \in Generated :
        LET steps == plans[n].plan.Steps
        IN /\ \E i \in DOMAIN steps : steps[i].Command = "db:PUT"
           /\ \E i \in DOMAIN steps : steps[i].Command = "fs:write"
           /\ \E i \in DOMAIN steps : ~isWriteCommand(steps[i].Command)

\* ---------------------------------------------- properties: checkpoints

\* C25: a checkpoint is immutable once saved: from the moment a checkpoint can
\* be restored under a name, Restore returns that same snapshot for the name
\* whatever is saved afterwards, under this name or another.
C25_SavedCheckpointIsImmutable ==
    [][\A name \in DOMAIN files :
          Restore(files, name).err = "" =>
              Restore(files', name) = Restore(files, name)]_vars

\* The snapshot that the checkpoint.save of this step has stored.
SavedNow == Restore(files', req'.params.p.Name).snap

\* C26: the snapshot a successful checkpoint.save stores is content-complete:
\* for each of the four scopes project, session, step and history that holds
\* data, it holds every key of the scope with its value.
C26_SnapshotHoldsEveryScope ==
    [][Handles("checkpoint.save") /\ resp'.code = 0 =>
          \A scope \in Buckets :
              DOMAIN List(store, scope) # {} =>
                  /\ scope \in DOMAIN SavedNow.ContextState
                  /\ SavedNow.ContextState[scope] = List(store, scope)]_vars

\* This step is a checkpoint.restore that found a well-formed checkpoint and
\* called RestoreSnapshot with it.
Restores == Handles("checkpoint.restore") /\ Restore(files, "cp").err = ""
            /\ req'.params.json # Malformed

\* The snapshot handed to RestoreSnapshot in this step.
Restored == Restore(files, "cp").snap

InSnapshot(k) ==
    \E e \in Entries(Restored) : k = e.scope \o "/" \o e.key

\* RestoreSnapshot never deletes and leaves alone what the snapshot lacks.
RestoreKeepsTheRest ==
    \A k \in DOMAIN store :
        ~InSnapshot(k) => k \in DOMAIN store' /\ store'[k] = store[k]

RestoreOverwrites ==
    \A e \in Entries(Restored) :
        /\ (e.scope \o "/" \o e.key) \in DOMAIN store'
        /\ store'[e.scope \o "/" \o e.key] = Restored.ContextState[e.scope][e.key]

C28_FailedRestoreLeavesStore ==
    [][Handles("checkpoint.restore") /\ resp'.code # 0 => store' = store]_vars

\* ------------------------------------------------ properties: inspector

\* This step is a POST served by handleApprove or handleReject.
Posts == nposts' = nposts + 1 /\ httpResp'.code = 200

\* C29: the inspector's POST /api/approve and /api/reject handlers never
\* block (a request is always answered in one step), and whenever no consumer
\* is waiting to receive an approval action the response status is
\* `no_pending_approval`.
C29_NoConsumerNoApproval ==
    [][/\ nposts < MaxPosts => ENABLED HandleApprove /\ ENABLED HandleReject
       /\ Posts /\ ~waiting => httpResp'.status = "no_pending_approval"]_vars

\* --------------------------------------------- properties: JSON-RPC handler

\* This step is the handling of a line that parsed as a request.
HandlesRequest == rpcReq'.valid /\ (rpcReq' # rpcReq \/ rpcResp' # rpcResp \/ invoked' # invoked)

\* C30: a parsed request whose version is not "2.0" or whose method is
\* missing is answered with InvalidRequest (-32600) carrying the request's
\* id, and no registered handler function is invoked for it.
C30_InvalidRequestRefused ==
    [][HandlesRequest
       /\ (rpcReq'.jsonrpc # Ptr("2.0") \/ rpcReq'.method = Nil) =>
          /\ rpcResp'.Error # Nil
          /\ Deref(rpcResp'.Error).Code = CodeInvalidRequest
          /\ rpcResp'.ID = rpcReq'.id
          /\ invoked' = invoked]_vars

\* ------------------------------------------------- properties: event types

\* C31: every event that reaches the bus history, whichever component
\* published it (pipeline runner, agent session, JSON-RPC methods), has a type
\* that belongs to the declared closed enumeration of event types.
C31_HistoryTypesAreDeclared ==
    \A n \in DOMAIN history : history[n].Type \in DeclaredEventTypes

\* ----------------------------------------- properties: verification engine

\* Whether assertion j (counted from 0) of the intent fails on the envelope:
\* its checker does not pass it, or its type has no checker.
FailsAt(j) ==
    LET a == verifyIn.intent.Assertions[j + 1]
    IN \/ GetChecker(a.Type) = Nil
       \/ ~CallChecker(Deref(GetChecker(a.Type)), verifyIn.envelope, a).Passed

Failures == {j \in 0..(Len(verifyIn.intent.Assertions) - 1) : FailsAt(j)}

FirstFailure == CHOOSE k \in Failures : \A j \in Failures : k <= j

\* C32: Verify with fail_fast evaluates the assertions in order and stops at
\* the first failing one (a failed checker or an unknown type): if the first
\* failure is at index k, results has exactly k+1 entries and no checker is
\* invoked for a later assertion; without fail_fast results has exactly one
\* entry per assertion.
C32_FailFastStopsAtFirstFailure ==
    verifyRun.pc = "returned" =>
        LET as == verifyIn.intent.Assertions
            res == verifyRun.result.Results
        IN /\ \A n \in DOMAIN res : res[n].Assertion = as[n]
           /\ IF engine.failFast /\ Failures # {}
              THEN /\ Len(res) = FirstFailure + 1
                   /\ \A c \in DOMAIN verifyRun.checked :
                          verifyRun.checked[c] <= FirstFailure
              ELSE Len(res) = Len(as)

\* Verify with fail_fast has returned for three assertions, the second of
\* which, of a type without checker, is the first to fail.
C32_Witness ==
    /\ verifyRun.pc = "returned"
    /\ engine.failFast
    /\ Len(verifyIn.intent.Assertions) = 3
    /\ Failures # {}
    /\ FirstFailure = 1
    /\ GetChecker(verifyIn.intent.Assertions[2].Type) = Nil
    /\ Len(verifyRun.result.Results) = 2

\* ------------------------------------------ properties: pipeline events

\* The events Run has published, in order.
IsEventCall(c) == c.kind = "event"
Events == SelectSeq(trace, IsEventCall)

EventNames == [n \in DOMAIN Events |-> Events[n].name]

\* C33: a pipeline with zero steps and an executor is the identity:
\* result.Output equals the input envelope, result.success is true,
\* result.Steps is empty, and the published events are exactly
\* pipeline.start followed by pipeline.end.
C33_EmptyPipelineIsIdentity ==
    (p.Executor /\ p.NSteps = 0 /\ pc = "returned") =>
        /\ err = ""
        /\ result.Output = input
        /\ result.Success = TRUE
        /\ result.Steps = <<>>
        /\ EventNames = IF p.Events THEN <<"pipeline.start", "pipeline.end">>
                        ELSE <<>>

C33_Witness ==
    /\ p.Executor /\ p.Events /\ p.NSteps = 0 /\ pc = "returned"
    /\ result.Output.Payload = "hello"
    /\ Len(trace) = 2

\* C34: in every PipelineResult, a StepResult whose checkpoint_saved field
\* is non-empty names a checkpoint whose SaveCheckpoint call for that step
\* returned success; a step whose checkpoint save failed has an empty
\* checkpoint_saved.
C34_CheckpointSavedMeansSaved ==
    \A k \in DOMAIN result.Steps :
        /\ result.Steps[k].CheckpointSaved # "" =>
              \E j \in SavesFor(k - 1) :
                  /\ trace[j].name = result.Steps[k].CheckpointSaved
                  /\ trace[j].info = "ok"
        /\ (\E j \in SavesFor(k - 1) : trace[j].info = "error") =>
              result.Steps[k].CheckpointSaved = ""

\* The events that end the command of step i.
CommandEndings(i) ==
    {n \in DOMAIN Events :
        /\ Events[n].name \in {"command.end", "command.error"}
        /\ Events[n].step = i}

\* C35: in every pipeline run, each command.start event for step i is
\* followed, before the run's pipeline.end, by exactly one command.end or
\* command.error event for step i, on every path (success, executor error,
\* verification failure, skip).
C35_CommandStartIsClosed ==
    pc = "returned" =>
        \A n \in DOMAIN Events :
            Events[n].name = "command.start" =>
                /\ Cardinality(CommandEndings(Events[n].step)) = 1
                /\ \A m \in CommandEndings(Events[n].step) :
                      /\ n < m
                      /\ \A q \in DOMAIN Events :
                            Events[q].name = "pipeline.end" => m < q

\* C36: every Pipeline.Run that has an executor publishes exactly one
\* pipeline.start, as its first event, and exactly one pipeline.end, as its
\* last event, on every exit path; the success flag of that pipeline.end
\* equals result.success.
C36_OneStartOneEnd ==
    (p.Executor /\ p.Events /\ pc # "idle") =>
        LET ev == Events
            starts == Cardinality({n \in DOMAIN ev : ev[n].name = "pipeline.start"})
            ends == Cardinality({n \in DOMAIN ev : ev[n].name = "pipeline.end"})
        IN /\ ev[1].name = "pipeline.start"
           /\ starts = 1
           /\ pc = "loop" => ends = 0
           /\ pc = "returned" =>
                 /\ ends = 1
                 /\ ev[Len(ev)].name = "pipeline.end"
                 /\ ev[Len(ev)].info
                        = (IF result.Success THEN "true" ELSE "false")

\* A run of two steps stopped at its second step, whose executor failed.
C36_Witness ==
    /\ p.Executor /\ p.Events /\ pc = "returned"
    /\ Len(result.Steps) = 2
    /\ result.Steps[2].Status = "error"
    /\ ~result.Success
    /\ Events[Len(Events)].info = "false"

\* --------------------------------------------- properties: named plans

\* This step handles a project.approve or project.reject that names a plan
\* other than the pending one.
NamesAnotherPlan ==
    /\ Handles("project.approve") \/ Handles("project.reject")
    /\ pendingPlan # Nil
    /\ req'.params.json = "object"
    /\ req'.params.p.PlanID \notin {"", planID}

\* The pipeline runs started so far, as the history shows them.
PipelineStarts(h) == Cardinality({n \in DOMAIN h : h[n].Type = "pipeline.start"})

\* C37: project.approve (resp. project.reject) that carries a plan_id
\* different from the plan_id of the currently pending plan does not execute
\* (resp. discard) the pending plan: only the plan the caller names is
\* approved or rejected.
C37_OnlyTheNamedPlan ==
    [][NamesAnotherPlan =>
          /\ pendingPlan' = pendingPlan
          /\ planID' = planID
          /\ PipelineStarts(history') = PipelineStarts(history)]_vars

\* ----------------------------------------- properties: inspector stream

\* C38: a client that connects to the inspector's event stream while events
\* are being published receives each event at most once: an event that is
\* part of the history replay is not delivered again as a live event.
C38_EachEventAtMostOnce ==
    \A i, j \in DOMAIN wsClient.written :
        i # j => wsClient.written[i] # wsClient.written[j]

\* ------------------------------------------ properties: pipeline method

\* The verifier was called for step i of the run.
VerifiedAt(i) ==
    \E j \in DOMAIN trace : trace[j].kind = "verify" /\ trace[j].step = i

\* C39: the pipeline executed by the JSON-RPC `pipeline` method is the one
\* its request describes: every step runs with the command, args and
\* on_error given in the request, and the verify assertions given for a step
\* are evaluated on that step's output, a failing assertion being handled
\* according to the step's on_error.
C39_PipelineMethodRunsTheRequest ==
    (pipeCall.done /\ pipeCall.code = 0) =>
        \A k \in DOMAIN result.Steps :
            LET def == pipeCall.params.p.Steps[k]
                sr == result.Steps[k]
            IN /\ sr.Step.Command = def.Command
               /\ sr.Step.OnError = def.OnError
               /\ sr.Step.Args = def.Args
               /\ (def.Verify # <<>> /\ sr.Error = "") =>
                      /\ VerifiedAt(k - 1)
                      /\ sr.Status = "verify_failed"

\* ----------------------------------------------- properties: step scope

\* The store as it was when Run made call j of the trace: the writes made
\* before it, applied in order to the empty store the run started on.
RECURSIVE StoreBefore(_)
StoreBefore(j) ==
    IF j = 1 THEN EmptyStore
    ELSE LET s == StoreBefore(j - 1)
             c == trace[j - 1]
         IN IF c.kind = "set"
            THEN [k \in DOMAIN s \cup {c.name} |->
                     IF k = c.name THEN c.info ELSE s[k]]
            ELSE s

\* C40: while the executor runs step i, the `step` scope of the store
\* describes step i only: step/command is step i's command, step/index is i,
\* and step/intent is step i's intent or absent when step i has none; no
\* value written for an earlier step remains in the scope.
C40_StepScopeDescribesTheStep ==
    \A j \in DOMAIN trace :
        trace[j].kind = "exec" =>
            LET i == trace[j].step
                step == StepOf(i)
                s == StoreBefore(j)
            IN /\ "step/command" \in DOMAIN s
               /\ s["step/command"] = JsonString(step.Command)
               /\ "step/index" \in DOMAIN s
               /\ s["step/index"] = JsonInt(i)
               /\ IF step.Intent = ""
                  THEN "step/intent" \notin DOMAIN s
                  ELSE /\ "step/intent" \in DOMAIN s
                       /\ s["step/intent"] = JsonString(step.Intent)

========================================================================
